---------------------------- MODULE Spec2Model ----------------------------
(***************************************************************************)
(* autosvc: the safety-gated write engine (adaptations, long coding), the  *)
(* two backup stores, revert, and the diagnostic service facade above them.*)
(*                                                                         *)
(* Text is modelled as sequences of character codes:                       *)
(*   0..15  the hex digits 0-9 a-f (letter case folded),                   *)
(*   16 'x', 17 '-', 20 't', 21 'r', 22 'u', 23 'l', 24 's', 25 'n',       *)
(*   26 'o', 27 'y', 28 'z'.                                               *)
(* Bytes are 0..255 and byte strings are sequences of bytes.               *)
(* The backup root is the directory named by AUTOSVC_BACKUP_DIR, which     *)
(* both store implementations resolve to (backups.py:23-26,                *)
(* core/safety/backups.py:14-17).                                          *)
(***************************************************************************)
EXTENDS Integers, Sequences, FiniteSets, TLC

VARIABLES
    mem,        \* ECU 09: DID -> bytes currently stored
    files,      \* backup root: backup_id text -> record file <id>.json
    indexJsonl, \* backup root: lines of index.jsonl (<<>> when absent)
    indexTxt,   \* backup root: text of index.txt (<<>> when absent)
    issued,     \* history: the backups created, in order, with the bytes read before
    fresh,      \* history: DID -> the backup of the engine write that last set it
    bus,        \* the CAN link to ECU 09 during the session: "up" or "down"
    tp,         \* the ISO-TP endpoints: name -> fields and position of IsoTpTransport
    wire,       \* CAN frames sent and not yet received: endpoint name -> queue
    now,        \* the monotonic clock, in milliseconds
    uds,        \* the UDS client: the request in progress and how it ended
    last,       \* the operation that ran last, with the steps it took
    scan,       \* the topology scan: its configuration, the frames seen, the result
    ipc,        \* one client connection of the JSONL server and its watch stream
    dtc,        \* the DTC codec: the code given and what it was turned into
    dtcs,       \* read_dtcs: the ECU's answers and what the call returned
    codec,      \* the adaptation value codec: the input and what it was turned into
    conc,       \* two backup stores on one directory, step by step
    calls       \* the requests of one UDS client in turn and the ECU's answers to them

vars == <<mem, files, indexJsonl, indexTxt, issued, fresh, bus, tp, wire, now, uds, last,
          scan, ipc, dtc, dtcs, codec, conc, calls>>

\* the write engines and their stores; the ISO-TP link and the UDS client
StoreVars == <<mem, files, indexJsonl, indexTxt, issued, fresh, bus, last>>

LinkVars == <<tp, wire, now, uds>>

LabVars == <<codec, conc, calls>>

(***************************************************************************)
(* Bounds of the model.                                                    *)
(***************************************************************************)
MaxBackups == 2

(***************************************************************************)
(* Text helpers.                                                           *)
(***************************************************************************)
None == <<99>>          \* Python None where a text is expected

Truthy(s) == s # None /\ s # <<>>

OrEmpty(s) == IF Truthy(s) THEN s ELSE <<>>

IsDigitText(s) == Len(s) > 0 /\ \A i \in 1..Len(s) : s[i] \in 0..9

IsHexText(s) == \A i \in 1..Len(s) : s[i] \in 0..15

RECURSIVE DigitsValue(_)
DigitsValue(s) ==
    IF s = <<>> THEN 0
    ELSE 10 * DigitsValue(SubSeq(s, 1, Len(s) - 1)) + s[Len(s)]

RECURSIVE HexValue(_)
HexValue(s) ==
    IF s = <<>> THEN 0
    ELSE 16 * HexValue(SubSeq(s, 1, Len(s) - 1)) + s[Len(s)]

RECURSIVE Digits(_)
Digits(n) == IF n < 10 THEN <<n>> ELSE Digits(n \div 10) \o <<n % 10>>

RECURSIVE PadLeft(_, _)
PadLeft(s, w) == IF Len(s) >= w THEN s ELSE PadLeft(<<0>> \o s, w)

\* f"{n:06d}"
Format06d(n) == PadLeft(Digits(n), 6)

RECURSIVE HexDigits(_)
HexDigits(n) == IF n < 16 THEN <<n>> ELSE HexDigits(n \div 16) \o <<n % 16>>

\* f"{did & 0xFFFF:04X}"
Format04X(did) == PadLeft(HexDigits(did % 65536), 4)

\* f"{ecu_int:02X}"
Format02X(n) == PadLeft(HexDigits(n), 2)

\* int(raw, 10): optional minus sign, then decimal digits
ParseInt10(s) ==
    IF Len(s) > 1 /\ s[1] = 17 /\ IsDigitText(Tail(s))
        THEN [ok |-> TRUE, n |-> 0 - DigitsValue(Tail(s))]
    ELSE IF IsDigitText(s) THEN [ok |-> TRUE, n |-> DigitsValue(s)]
    ELSE [ok |-> FALSE, n |-> 0]

\* int(raw, 16): optional minus sign, optional 0x prefix, then hex digits
ParseInt16(s) ==
    LET neg  == Len(s) > 0 /\ s[1] = 17
        s1   == IF neg THEN Tail(s) ELSE s
        pre  == Len(s1) >= 2 /\ s1[1] = 0 /\ s1[2] = 16
        body == IF pre THEN SubSeq(s1, 3, Len(s1)) ELSE s1
    IN  IF Len(body) > 0 /\ IsHexText(body)
            THEN [ok |-> TRUE, n |-> IF neg THEN 0 - HexValue(body) ELSE HexValue(body)]
        ELSE [ok |-> FALSE, n |-> 0]

\* bytes.hex().upper()
BytesHex(bs) ==
    [i \in 1..(2 * Len(bs)) |->
        IF i % 2 = 1 THEN bs[(i + 1) \div 2] \div 16 ELSE bs[i \div 2] % 16]

\* bytes.fromhex(raw) for an even-length text of hex digits
FromHex(s) == [i \in 1..(Len(s) \div 2) |-> 16 * s[2 * i - 1] + s[2 * i]]

\* _parse_hex (the adaptations and the long-coding copy are the same code)
ParseHex(value) ==
    LET raw0 == OrEmpty(value)
        raw  == IF Len(raw0) >= 2 /\ raw0[1] = 0 /\ raw0[2] = 16
                    THEN SubSeq(raw0, 3, Len(raw0)) ELSE raw0
    IN  IF raw = <<>> THEN [ok |-> TRUE, bytes |-> <<>>, err |-> "none"]
        ELSE IF Len(raw) % 2 # 0
            THEN [ok |-> FALSE, bytes |-> <<>>, err |-> "hex payload must have even length"]
        ELSE IF ~IsHexText(raw)
            THEN [ok |-> FALSE, bytes |-> <<>>, err |-> "invalid hex payload"]
        ELSE [ok |-> TRUE, bytes |-> FromHex(raw), err |-> "none"]

\* _normalize_ecu (adaptations.py, longcoding.py) and service._normalize_ecu
NormalizeEcu(value) ==
    LET p == ParseInt16(value)
    IN  IF value = <<>> \/ ~p.ok THEN [ok |-> FALSE, ecu |-> <<>>, err |-> "ecu must be hex string"]
        ELSE IF p.n < 0 \/ p.n > 255 THEN [ok |-> FALSE, ecu |-> <<>>, err |-> "ecu out of range"]
        ELSE [ok |-> TRUE, ecu |-> Format02X(p.n), err |-> "none"]

(***************************************************************************)
(* The backup root.  A directory is [files, jsonl, txt]; a record file is  *)
(* the JSON object written to <backup_id>.json, with None for a key the    *)
(* object does not carry ("" for a missing kind).  The notes text is       *)
(* carried by no decision of the code and is left out.                     *)
(***************************************************************************)
Dir(f, j, t) == [files |-> f, jsonl |-> j, txt |-> t]

PutFile(f, id, rec) == [x \in (DOMAIN f) \cup {id} |-> IF x = id THEN rec ELSE f[x]]

\* core/safety/backups.py BackupStore._next_id: the index.txt counter
SafetyNextNumber(dir) ==
    LET p == ParseInt10(IF dir.txt = <<>> THEN <<0>> ELSE dir.txt)
    IN  (IF p.ok THEN p.n ELSE 0) + 1

\* core/safety/backups.py BackupRecord.to_dict
SafetyRecord(id, ecu, did, key, old, new) ==
    [backup_id |-> id, kind |-> "", ecu |-> ecu, did |-> Format04X(did), key |-> key,
     old_hex |-> BytesHex(old), new_hex |-> BytesHex(new), raw_hex |-> None]

\* core/safety/backups.py BackupStore.create_backup
SafetyCreateBackup(dir, ecu, did, key, old, new) ==
    LET nxt == SafetyNextNumber(dir)
        id  == Format06d(nxt)
        rec == SafetyRecord(id, ecu, did, key, old, new)
    IN  [id |-> id, rec |-> rec,
         dir |-> Dir(PutFile(dir.files, id, rec), dir.jsonl, Digits(nxt))]

\* core/safety/backups.py BackupStore.load
SafetyLoad(dir, backup_id) ==
    LET bad(e) == [ok |-> FALSE, err |-> e, rec |-> None]
        normalized == Format06d(DigitsValue(backup_id))
        obj == dir.files[normalized]
        old_hex == OrEmpty(obj.old_hex)
        new_hex == OrEmpty(obj.new_hex)
        did == ParseInt16(OrEmpty(obj.did))
    IN  IF backup_id = <<>> THEN bad("backup_id is required")
        ELSE IF ~IsDigitText(backup_id) THEN bad("invalid backup_id")
        ELSE IF normalized \notin DOMAIN dir.files THEN bad("backup not found")
        ELSE IF ~did.ok THEN bad("invalid backup record")
        ELSE IF Len(OrEmpty(obj.ecu)) # 2 THEN bad("invalid backup record")
        ELSE IF old_hex = <<>> \/ new_hex = <<>> THEN bad("invalid backup record")
        ELSE [ok |-> TRUE, err |-> "none",
              rec |-> [backup_id |-> normalized, kind |-> "", ecu |-> obj.ecu,
                       did |-> did.n % 65536, key |-> obj.key,
                       old_hex |-> old_hex, new_hex |-> new_hex, raw_hex |-> None]]

\* backups.py BackupStore._next_id: the backup_id of the last line of index.jsonl
NextNumber(dir) ==
    LET lines == dir.jsonl
        obj   == lines[Len(lines)]
    IN  (IF Len(lines) > 0 /\ IsDigitText(OrEmpty(obj.backup_id))
            THEN DigitsValue(obj.backup_id) ELSE 0) + 1

\* backups.py BackupStore.create_backup: the str-and-non-empty normalisation
HexOrNone(h) == IF Truthy(h) THEN h ELSE None

\* backups.py BackupStore.create_backup, BackupRecord.to_dict
CreateBackup(dir, kind, ecu, did, key, old_hex, new_hex, raw_hex) ==
    LET id  == Format06d(NextNumber(dir))
        rec == [backup_id |-> id, kind |-> kind, ecu |-> ecu,
                did |-> Format04X(did % 65536), key |-> key,
                old_hex |-> HexOrNone(old_hex), new_hex |-> HexOrNone(new_hex),
                raw_hex |-> HexOrNone(raw_hex)]
    IN  [id |-> id, rec |-> rec,
         dir |-> Dir(PutFile(dir.files, id, rec), Append(dir.jsonl, rec), dir.txt)]

\* create_write_backup with the payload recorded as the old value
CreateWriteBackupOfPayload(dir, ecu, did, key, old, new) ==
    CreateBackup(dir, "did_write", ecu, did, key, BytesHex(new), BytesHex(new), None)

\* backups.py BackupStore.create_write_backup
CreateWriteBackup(dir, ecu, did, key, old, new) ==
    CreateBackup(dir, "did_write", ecu, did, key, BytesHex(old), BytesHex(new), None)

\* backups.py BackupStore.create_snapshot_backup
CreateSnapshotBackup(dir, ecu, did, key, raw) ==
    CreateBackup(dir, "did_snapshot", ecu, did, key, None, None, BytesHex(raw))

\* backups.py BackupStore.load
Load(dir, backup_id) ==
    LET bad(e) == [ok |-> FALSE, err |-> e, rec |-> None]
        normalized == Format06d(DigitsValue(backup_id))
        obj == dir.files[normalized]
        did == ParseInt16(OrEmpty(obj.did))
    IN  IF backup_id = <<>> THEN bad("backup_id is required")
        ELSE IF ~IsDigitText(backup_id) THEN bad("invalid backup_id")
        ELSE IF normalized \notin DOMAIN dir.files THEN bad("backup not found")
        ELSE IF ~did.ok THEN bad("invalid backup record")
        ELSE IF Len(OrEmpty(obj.ecu)) # 2 THEN bad("invalid backup record")
        ELSE IF obj.kind \notin {"did_write", "did_snapshot"} THEN bad("invalid backup record")
        ELSE [ok |-> TRUE, err |-> "none",
              rec |-> [backup_id |-> normalized, kind |-> obj.kind, ecu |-> obj.ecu,
                       did |-> did.n % 65536, key |-> obj.key,
                       old_hex |-> HexOrNone(obj.old_hex), new_hex |-> HexOrNone(obj.new_hex),
                       raw_hex |-> HexOrNone(obj.raw_hex)]]

(***************************************************************************)
(* The dataset pack of the modelled vehicle (one ECU, 09) and the DIDs of  *)
(* its ECU.  RawDid has no dataset entry.                                  *)
(***************************************************************************)
AdaptDid == 1536
CodingDid == 1537
RawDid == 61856

Dids == {AdaptDid, CodingDid, RawDid}

Ecu09 == <<0, 9>>

\* datasets/models.py AdaptationsProfile, AdaptSettingSpec
AdaptProfile ==
    [ecu |-> Ecu09,
     settings |->
        << [key |-> "idle",  kind |-> "bool",  rdid |-> AdaptDid, wdid |-> AdaptDid,
            risk |-> "safe", enum |-> {}],
           [key |-> "limit", kind |-> "u8",    rdid |-> AdaptDid, wdid |-> AdaptDid,
            risk |-> "risky", enum |-> {}],
           [key |-> "blob",  kind |-> "bytes", rdid |-> AdaptDid, wdid |-> AdaptDid,
            risk |-> "unsafe", enum |-> {}] >>]

\* the enum map of field "mode": decimal key -> label
ModeEnum == { <<<<0>>, <<26, 15, 15>>>>, <<<<1>>, <<26, 25>>>>, <<<<2>>, <<10, 22, 20, 26>>>> }

\* datasets/models.py LongCodingProfile, LongCodingFieldSpec (did and
\* coding_length overrides absent); the loader admits bit + length <= 8 only
CodingProfile ==
    [ecu |-> Ecu09, did |-> CodingDid, length |-> 2,
     fields |->
        << [key |-> "drl",  kind |-> "bool", risk |-> "safe",   byte |-> 0, bit |-> 0,
            length |-> 1, enum |-> {}],
           [key |-> "mode", kind |-> "enum", risk |-> "risky",  byte |-> 1, bit |-> 3,
            length |-> 2, enum |-> ModeEnum],
           [key |-> "gain", kind |-> "u8",   risk |-> "unsafe", byte |-> 1, bit |-> 4,
            length |-> 4, enum |-> {}] >>]

NoSpec == [key |-> "", kind |-> "", risk |-> ""]

(***************************************************************************)
(* Inputs of the operations.                                               *)
(***************************************************************************)
\* "09", "0a" (no profile, not on the bus), "zz"
EcuInputs == { Ecu09, <<0, 10>>, <<28, 28>> }

AdaptKeyInputs == { "idle", "limit", "blob", "nokey" }

CodingKeyInputs == { "drl", "mode", "gain", "nokey" }

\* "1", "07"
ValueInputs == { <<1>>, <<0, 7>> }

\* "", "0x0a", "abc"
HexInputs == { <<>>, <<0, 16, 0, 10>>, <<10, 11, 12>> }

\* a mode text: its stripped lower-case form, and whether it is written
\* exactly so (" Unsafe " has norm "unsafe" and exact FALSE)
Unsafe == [norm |-> "unsafe", exact |-> TRUE]

ModeInputs ==
    { [norm |-> n, exact |-> TRUE] : n \in {"safe", "advanced", "unsafe", "expert"} }
        \cup { [norm |-> "unsafe", exact |-> FALSE] }

\* "000001", "2", "zz"
IdInputs == { <<0, 0, 0, 0, 0, 1>>, <<2>>, <<28, 28>> }

\* the DIDs raw writes are tried on
RawDidInputs == { RawDid }

\* the calls of a dataset write: every dataset key under every mode, every
\* dataset key with every value, every ECU with a key no dataset has
WriteInputs(keys) ==
    [ecu : {Ecu09}, key : keys \ {"nokey"}, value : {<<1>>},
     mode : {m \in ModeInputs : m.exact}]
        \cup [ecu : {Ecu09}, key : keys \ {"nokey"}, value : ValueInputs, mode : {Unsafe}]
        \cup [ecu : EcuInputs, key : {"nokey"}, value : {<<1>>}, mode : {Unsafe}]

\* the calls of a raw write: every DID under every mode, every DID with every
\* payload, every ECU
RawInputs ==
    [ecu : {Ecu09}, did : RawDidInputs, hex : {<<0, 16, 0, 10>>}, mode : ModeInputs]
        \cup [ecu : {Ecu09}, did : RawDidInputs, hex : HexInputs, mode : {Unsafe}]
        \cup [ecu : EcuInputs, did : {RawDid}, hex : {<<>>}, mode : {Unsafe}]

(***************************************************************************)
(* The ECU and the UDS client calls the engines use.                       *)
(***************************************************************************)
Ev(t, did, data, id, resp, stored) ==
    [t |-> t, did |-> did, data |-> data, id |-> id, resp |-> resp, stored |-> stored,
     nrc |-> None]

\* ECU 09 answers every ReadDataByIdentifier while the link is up, and none
\* of them while it is down
ReadResults == IF bus = "up" THEN {"ok"} ELSE {"err"}

\* uds/security.py
SECURITY_RELATED_NRCS == {51, 53, 54, 55}

is_security_nrc(nrc) == (nrc % 256) \in SECURITY_RELATED_NRCS

\* only ECU 09 is on the bus: a request to another address gets no answer
EcuReadResults(ecu) == IF ecu = Ecu09 THEN ReadResults ELSE {"err"}

\* answers of the ECU to WriteDataByIdentifier: positive, securityAccessDenied,
\* requestOutOfRange, or none in time
WriteResponses ==
    IF bus = "up"
        THEN { [k |-> "pos", nrc |-> 0], [k |-> "neg", nrc |-> 51],
               [k |-> "neg", nrc |-> 49], [k |-> "timeout", nrc |-> 0] }
    ELSE { [k |-> "timeout", nrc |-> 0] }

\* what an ECU keeps of an accepted payload: all of it, or of a longer one
\* only its first byte
EcuStores(payload) ==
    {payload} \cup (IF Len(payload) < 2 THEN {} ELSE {SubSeq(payload, 1, 1)})

\* uds.did.read_did through _read_did: the step, given the ECU's answer
ReadEv(m, did, r) ==
    Ev("read", did, IF r = "ok" THEN m[did] ELSE <<>>, None, [k |-> r, nrc |-> 0], <<>>)

\* _write_did with every negative response reported as a plain write failure
WriteErrorPlain(w) ==
    IF w.k = "neg" THEN "write failed" ELSE "timeout waiting for response"

\* _write_did: the error text of a failed write
WriteError(w) ==
    IF w.k = "neg" THEN (IF is_security_nrc(w.nrc) THEN "security access required"
                         ELSE "write failed")
    ELSE "timeout waiting for response"

\* _write_did: the (nrc=0x..) part of that text, two hex digits
WriteErrorNrc(w) == IF w.k = "neg" THEN Format02X(w.nrc) ELSE None

\* _write_did: the steps a WriteDataByIdentifier can take, [ev, mem, err]
WriteDid(m, did, payload) ==
    { [ev  |-> [Ev("write", did, payload, None, w, IF w.k = "pos" THEN st ELSE m[did])
                   EXCEPT !.nrc = WriteErrorNrc(w)],
       mem |-> IF w.k = "pos" THEN [m EXCEPT ![did] = st] ELSE m,
       err |-> IF w.k = "pos" THEN "none" ELSE WriteError(w)]
      : w \in WriteResponses, st \in EcuStores(payload) }

Run(res, steps, m, dir, bid) ==
    [res |-> res, steps |-> steps, mem |-> m, dir |-> dir, bid |-> bid]

(***************************************************************************)
(* The adaptations engine (core/uds/adaptations.py), on the store of       *)
(* core/safety/backups.py that it constructs.                              *)
(***************************************************************************)
StrTrue == <<20, 21, 22, 14>>
StrFalse == <<15, 10, 23, 24, 14>>

\* str.lower(): an upper-case letter is written as its lower-case code + 50
LowerText(s) == [i \in DOMAIN s |-> IF s[i] >= 60 /\ s[i] < 99 THEN s[i] - 50 ELSE s[i]]

\* _encode_value that cuts a number down to the width of its kind
EncodeValueMasked(spec, value) ==
    LET good(bs) == [ok |-> TRUE, bytes |-> bs, err |-> "none"]
        bad(e)   == [ok |-> FALSE, bytes |-> <<>>, err |-> e]
        n        == ParseInt10(value)
        m        == n.n % 65536
    IN  IF spec.kind \notin {"u8", "u16", "i16", "enum"} THEN bad("invalid kind")
        ELSE IF ~n.ok THEN bad("invalid value")
        ELSE IF spec.kind \in {"u8", "enum"} THEN good(<<n.n % 256>>)
        ELSE good(<<m \div 256, m % 256>>)

\* adaptations._encode_value
EncodeValue(spec, value) ==
    LET good(bs) == [ok |-> TRUE, bytes |-> bs, err |-> "none"]
        bad(e)   == [ok |-> FALSE, bytes |-> <<>>, err |-> e]
        n        == ParseInt10(value)
        hx       == ParseHex(value)
        byKey    == { e \in spec.enum : e[1] = value }
        byLabel  == { e \in spec.enum : LowerText(e[2]) = LowerText(value) }
    IN  IF spec.kind = "bool" THEN
            IF LowerText(value) \in {StrTrue, <<1>>} THEN good(<<1>>)
            ELSE IF LowerText(value) \in {StrFalse, <<0>>} THEN good(<<0>>)
            ELSE bad("invalid bool value")
        ELSE IF spec.kind = "u8" THEN
            IF ~n.ok THEN bad("invalid u8 value")
            ELSE IF n.n < 0 \/ n.n > 255 THEN bad("u8 out of range")
            ELSE good(<<n.n % 256>>)
        ELSE IF spec.kind = "u16" THEN
            IF ~n.ok THEN bad("invalid u16 value")
            ELSE IF n.n < 0 \/ n.n > 65535 THEN bad("u16 out of range")
            ELSE good(<<n.n \div 256, n.n % 256>>)
        ELSE IF spec.kind = "i16" THEN
            IF ~n.ok THEN bad("invalid i16 value")
            ELSE IF n.n < -32768 \/ n.n > 32767 THEN bad("i16 out of range")
            ELSE good(<<((n.n + 65536) % 65536) \div 256, ((n.n + 65536) % 65536) % 256>>)
        ELSE IF spec.kind = "bytes" THEN
            IF hx.ok THEN good(hx.bytes) ELSE bad(hx.err)
        ELSE IF spec.kind = "enum" THEN
            IF spec.enum # {} /\ IsDigitText(value) /\ byKey # {}
                THEN good(<<DigitsValue(value) % 256>>)
            ELSE IF spec.enum # {} /\ byLabel # {}
                THEN good(<<DigitsValue((CHOOSE e \in byLabel : TRUE)[1]) % 256>>)
            ELSE IF ~n.ok THEN bad("invalid enum value")
            ELSE IF n.n < 0 \/ n.n > 255 THEN bad("enum out of range")
            ELSE good(<<n.n % 256>>)
        ELSE bad("invalid kind")

\* adaptations._decode_value
DecodeValue(spec, raw) ==
    LET good(v) == [ok |-> TRUE, val |-> v, err |-> "none"]
        bad(e)  == [ok |-> FALSE, val |-> 0, err |-> e]
        u16     == 256 * raw[1] + raw[2]
    IN  IF spec.kind = "bool" THEN good(IF Len(raw) >= 1 /\ raw[1] = 1 THEN 1 ELSE 0)
        ELSE IF spec.kind = "u8" THEN
            IF Len(raw) < 1 THEN bad("short u8 value") ELSE good(raw[1] % 256)
        ELSE IF spec.kind = "u16" THEN
            IF Len(raw) < 2 THEN bad("short u16 value") ELSE good(u16)
        ELSE IF spec.kind = "i16" THEN
            IF Len(raw) < 2 THEN bad("short i16 value")
            ELSE good(IF u16 >= 32768 THEN u16 - 65536 ELSE u16)
        ELSE IF spec.kind = "bytes" THEN good(BytesHex(raw))
        ELSE IF spec.kind = "enum" THEN
            IF Len(raw) < 1 THEN bad("short enum value") ELSE good(raw[1] % 256)
        ELSE bad("invalid kind")

\* _enforce_mode without its safe-mode line
AdaptEnforceModeNoSafeLine(mode, risk) ==
    LET m == mode.norm
    IN  IF m \notin {"safe", "advanced", "unsafe"} THEN "invalid mode"
        ELSE IF m = "advanced" /\ risk \notin {"safe", "risky"} THEN "not allowed in advanced mode"
        ELSE "none"

\* adaptations._enforce_mode: the error it raises, "none" when it passes
AdaptEnforceMode(mode, risk) ==
    LET m == mode.norm
    IN  IF m \notin {"safe", "advanced", "unsafe"} THEN "invalid mode"
        ELSE IF m = "safe" /\ risk # "safe" THEN "not allowed in safe mode"
        ELSE IF m = "advanced" /\ risk \notin {"safe", "risky"} THEN "not allowed in advanced mode"
        ELSE "none"

\* AdaptationsManager._profile_for_ecu
AdaptProfileForEcu(ecu) ==
    LET e == NormalizeEcu(ecu)
    IN  IF ~e.ok THEN e.err
        ELSE IF e.ecu # AdaptProfile.ecu THEN "no adaptations profile for ECU"
        ELSE "none"

\* AdaptationsManager._spec_for_key
AdaptSpecForKey(key) ==
    LET hits == { i \in 1..Len(AdaptProfile.settings) : AdaptProfile.settings[i].key = key }
    IN  IF key = "" THEN [err |-> "key is required", spec |-> NoSpec]
        ELSE IF hits = {} THEN [err |-> "unknown setting key", spec |-> NoSpec]
        ELSE [err |-> "none",
              spec |-> AdaptProfile.settings[CHOOSE i \in hits : \A j \in hits : i <= j]]

\* AdaptationsManager.write_setting: every run it can take on ECU memory m
\* and backup root dir, one per answer of the ECU
WriteSetting(m, dir, ecu, key, value, mode) ==
    LET perr == AdaptProfileForEcu(ecu)
        sk   == AdaptSpecForKey(key)
        spec == sk.spec
        gate == AdaptEnforceMode(mode, spec.risk)
        did  == spec.wdid % 65536
        new  == EncodeValue(spec, value)
        AfterWrite(s3, w, b) ==
            IF w.err # "none" THEN { Run(w.err, Append(s3, w.ev), w.mem, b.dir, None) }
            ELSE { LET rb == ReadEv(w.mem, did, r2)
                       s5 == Append(Append(s3, w.ev), rb)
                   IN  IF r2 # "ok" THEN Run("read failed", s5, w.mem, b.dir, None)
                       ELSE IF ~DecodeValue(spec, s3[1].data).ok
                           THEN Run(DecodeValue(spec, s3[1].data).err, s5, w.mem, b.dir, None)
                       ELSE IF ~DecodeValue(spec, rb.data).ok
                           THEN Run(DecodeValue(spec, rb.data).err, s5, w.mem, b.dir, None)
                       ELSE Run("ok", s5, w.mem, b.dir, b.id)
                   : r2 \in ReadResults }
        AfterRead(r1) ==
            LET rd == ReadEv(m, did, r1)
                b  == SafetyCreateBackup(dir, AdaptProfile.ecu, did, spec.key, rd.data, new.bytes)
                s3 == <<rd, Ev("backup", did, rd.data, b.id, [k |-> "ok", nrc |-> 0], <<>>)>>
            IN  IF r1 # "ok" THEN { Run("read failed", <<rd>>, m, dir, None) }
                ELSE IF ~new.ok THEN { Run(new.err, <<rd>>, m, dir, None) }
                ELSE UNION { AfterWrite(s3, w, b) : w \in WriteDid(m, did, new.bytes) }
    IN  IF perr # "none" THEN { Run(perr, <<>>, m, dir, None) }
        ELSE IF sk.err # "none" THEN { Run(sk.err, <<>>, m, dir, None) }
        ELSE IF gate # "none" THEN { Run(gate, <<>>, m, dir, None) }
        ELSE UNION { AfterRead(r1) : r1 \in ReadResults }

\* write_raw with the backup created before the answer to the read is looked at
AdaptWriteRawBackupOnReadError(m, dir, ecu, did0, hex_payload, mode) ==
    LET e    == NormalizeEcu(ecu)
        did  == did0 % 65536
        new  == ParseHex(hex_payload)
        AfterRead(r1) ==
            LET rd == ReadEv(m, did, r1)
                b  == SafetyCreateBackup(dir, e.ecu, did, "", rd.data, new.bytes)
            IN  { Run("read failed", <<rd>>, m, b.dir, None) }
    IN  IF ~(mode.exact /\ mode.norm = "unsafe")
            THEN { Run("write-raw requires --mode unsafe", <<>>, m, dir, None) }
        ELSE IF ~e.ok THEN { Run(e.err, <<>>, m, dir, None) }
        ELSE IF ~new.ok THEN { Run(new.err, <<>>, m, dir, None) }
        ELSE UNION { AfterRead(r1) : r1 \in EcuReadResults(e.ecu) }

\* AdaptationsManager.write_raw
AdaptWriteRaw(m, dir, ecu, did0, hex_payload, mode) ==
    LET e    == NormalizeEcu(ecu)
        ReadResults1 == EcuReadResults(e.ecu)
        did  == did0 % 65536
        new  == ParseHex(hex_payload)
        AfterWrite(s3, w, b) ==
            IF w.err # "none" THEN { Run(w.err, Append(s3, w.ev), w.mem, b.dir, None) }
            ELSE { LET rb == ReadEv(w.mem, did, r2)
                       s5 == Append(Append(s3, w.ev), rb)
                   IN  IF r2 # "ok" THEN Run("read failed", s5, w.mem, b.dir, None)
                       ELSE Run("ok", s5, w.mem, b.dir, b.id)
                   : r2 \in ReadResults }
        AfterRead(r1) ==
            LET rd == ReadEv(m, did, r1)
                b  == SafetyCreateBackup(dir, e.ecu, did, "", rd.data, new.bytes)
                s3 == <<rd, Ev("backup", did, rd.data, b.id, [k |-> "ok", nrc |-> 0], <<>>)>>
            IN  IF r1 # "ok" THEN { Run("read failed", <<rd>>, m, dir, None) }
                ELSE UNION { AfterWrite(s3, w, b) : w \in WriteDid(m, did, new.bytes) }
    IN  IF ~(mode.exact /\ mode.norm = "unsafe")
            THEN { Run("write-raw requires --mode unsafe", <<>>, m, dir, None) }
        ELSE IF ~e.ok THEN { Run(e.err, <<>>, m, dir, None) }
        ELSE IF ~new.ok THEN { Run(new.err, <<>>, m, dir, None) }
        ELSE UNION { AfterRead(r1) : r1 \in ReadResults1 }

\* AdaptationsManager.revert with a backup of the bytes it is about to replace
AdaptRevertBackedUp(m, dir, backup_id) ==
    LET ld  == SafetyLoad(dir, backup_id)
        rec == ld.rec
        old == ParseHex(rec.old_hex)
        b   == SafetyCreateBackup(dir, rec.ecu, rec.did, "", m[rec.did], old.bytes)
        s1  == <<Ev("backup", rec.did, m[rec.did], b.id, [k |-> "ok", nrc |-> 0], <<>>)>>
        AfterWrite(w) ==
            IF w.err # "none" THEN { Run(w.err, Append(s1, w.ev), w.mem, b.dir, None) }
            ELSE { LET rb == ReadEv(w.mem, rec.did, r2)
                   IN  IF r2 # "ok" THEN Run("read failed", s1 \o <<w.ev, rb>>, w.mem, b.dir, None)
                       ELSE Run("ok", s1 \o <<w.ev, rb>>, w.mem, b.dir, rec.backup_id)
                   : r2 \in ReadResults }
    IN  IF ~ld.ok THEN { Run(ld.err, <<>>, m, dir, None) }
        ELSE IF ~old.ok THEN { Run(old.err, <<>>, m, dir, None) }
        ELSE UNION { AfterWrite(w) : w \in WriteDid(m, rec.did, old.bytes) }

\* AdaptationsManager.revert
AdaptRevert(m, dir, backup_id) ==
    LET ld  == SafetyLoad(dir, backup_id)
        rec == ld.rec
        old == ParseHex(rec.old_hex)
        AfterWrite(w) ==
            IF w.err # "none" THEN { Run(w.err, <<w.ev>>, w.mem, dir, None) }
            ELSE { LET rb == ReadEv(w.mem, rec.did, r2)
                   IN  IF r2 # "ok" THEN Run("read failed", <<w.ev, rb>>, w.mem, dir, None)
                       ELSE Run("ok", <<w.ev, rb>>, w.mem, dir, rec.backup_id)
                   : r2 \in ReadResults }
    IN  IF ~ld.ok THEN { Run(ld.err, <<>>, m, dir, None) }
        ELSE IF ~old.ok THEN { Run(old.err, <<>>, m, dir, None) }
        ELSE UNION { AfterWrite(w) : w \in WriteDid(m, rec.did, old.bytes) }

(***************************************************************************)
(* The long-coding engine (core/uds/longcoding.py), on the store of        *)
(* backups.py.                                                             *)
(***************************************************************************)
Pow2(n) == IF n = 0 THEN 1 ELSE IF n = 1 THEN 2 ELSE IF n = 2 THEN 4 ELSE IF n = 3 THEN 8
           ELSE IF n = 4 THEN 16 ELSE IF n = 5 THEN 32 ELSE IF n = 6 THEN 64
           ELSE IF n = 7 THEN 128 ELSE 256

\* the check the bit helpers share: "none", or the error they raise
BitsError(buflen, byte, bit, length) ==
    IF byte < 0 \/ byte >= buflen THEN "byte index out of range"
    ELSE IF bit < 0 \/ bit > 7 THEN "bit must be 0..7"
    ELSE IF bit + length > 8 THEN "field crosses byte boundary"
    ELSE "none"

\* longcoding._get_bits
GetBits(buf, byte, bit, length) ==
    IF length <= 0 THEN [err |-> "none", val |-> 0]
    ELSE IF BitsError(Len(buf), byte, bit, length) # "none"
        THEN [err |-> BitsError(Len(buf), byte, bit, length), val |-> 0]
    ELSE [err |-> "none", val |-> (buf[byte + 1] \div Pow2(bit)) % Pow2(length)]

\* _set_bits that shifts the value into place without keeping the other bits
SetBitsWholeByte(buf, byte, bit, length, value) ==
    LET mask == Pow2(length) - 1
    IN  IF length <= 0 THEN [err |-> "none", buf |-> buf]
        ELSE IF BitsError(Len(buf), byte, bit, length) # "none"
            THEN [err |-> BitsError(Len(buf), byte, bit, length), buf |-> buf]
        ELSE IF value < 0 \/ value > mask
            THEN [err |-> "value out of range for bitfield", buf |-> buf]
        ELSE [err |-> "none",
              buf |-> [buf EXCEPT ![byte + 1] = (value % Pow2(length)) * Pow2(bit)]]

\* longcoding._set_bits: the buffer after the call, or the error
SetBits(buf, byte, bit, length, value) ==
    LET mask == Pow2(length) - 1
        cur  == buf[byte + 1]
        kept == cur - ((cur \div Pow2(bit)) % Pow2(length)) * Pow2(bit)
    IN  IF length <= 0 THEN [err |-> "none", buf |-> buf]
        ELSE IF BitsError(Len(buf), byte, bit, length) # "none"
            THEN [err |-> BitsError(Len(buf), byte, bit, length), buf |-> buf]
        ELSE IF value < 0 \/ value > mask
            THEN [err |-> "value out of range for bitfield", buf |-> buf]
        ELSE [err |-> "none",
              buf |-> [buf EXCEPT ![byte + 1] = kept + (value % Pow2(length)) * Pow2(bit)]]

\* longcoding._encode_field_value
EncodeFieldValue(spec, value) ==
    LET n       == ParseInt10(value)
        byKey   == { e \in spec.enum : e[1] = value }
        byLabel == { e \in spec.enum : e[2] = value }
    IN  IF spec.kind = "bool" THEN
            IF value \in {StrTrue, <<1>>, <<27, 14, 24>>, <<26, 25>>} THEN [err |-> "none", val |-> 1]
            ELSE IF value \in {StrFalse, <<0>>, <<25, 26>>, <<26, 15, 15>>}
                THEN [err |-> "none", val |-> 0]
            ELSE [err |-> "invalid bool value", val |-> 0]
        ELSE IF spec.kind = "enum" THEN
            IF spec.enum # {} /\ IsDigitText(value) /\ byKey # {}
                THEN [err |-> "none", val |-> DigitsValue(value)]
            ELSE IF spec.enum # {} /\ byLabel # {}
                THEN [err |-> "none", val |-> DigitsValue((CHOOSE e \in byLabel : TRUE)[1])]
            ELSE IF IsDigitText(value) THEN [err |-> "none", val |-> DigitsValue(value)]
            ELSE [err |-> "invalid enum value", val |-> 0]
        ELSE IF spec.kind = "u8" THEN
            IF n.ok THEN [err |-> "none", val |-> n.n] ELSE [err |-> "invalid u8 value", val |-> 0]
        ELSE [err |-> "invalid kind", val |-> 0]

\* _enforce_mode with the safe-mode line of the adaptations engine
CodingEnforceModeSafeBySetting(mode, risk) ==
    LET m == mode.norm
    IN  IF m \notin {"safe", "advanced", "unsafe"} THEN "invalid mode"
        ELSE IF m = "safe" /\ risk # "safe" THEN "not allowed in safe mode"
        ELSE IF m = "advanced" /\ risk \notin {"safe", "risky"} THEN "not allowed in advanced mode"
        ELSE "none"

\* longcoding._enforce_mode: the error it raises, "none" when it passes
CodingEnforceMode(mode, risk) ==
    LET m == mode.norm
    IN  IF m \notin {"safe", "advanced", "unsafe"} THEN "invalid mode"
        ELSE IF m = "safe" THEN "safe mode is read-only"
        ELSE IF m = "advanced" /\ risk \notin {"safe", "risky"} THEN "not allowed in advanced mode"
        ELSE "none"

\* _require_length that refuses only a longer value
LengthErrorIfLonger(raw, expected) == expected > 0 /\ Len(raw) > expected

\* longcoding._require_length: TRUE when it raises
LengthError(raw, expected) == expected > 0 /\ Len(raw) # expected

\* LongCodingManager._profile_for_ecu
CodingProfileForEcu(ecu) ==
    LET e == NormalizeEcu(ecu)
    IN  IF ~e.ok THEN e.err
        ELSE IF e.ecu # CodingProfile.ecu THEN "no long coding profile for ECU"
        ELSE "none"

\* LongCodingManager._spec_for_key
CodingSpecForKey(key) ==
    LET hits == { i \in 1..Len(CodingProfile.fields) : CodingProfile.fields[i].key = key }
    IN  IF key = "" THEN [err |-> "key is required", spec |-> NoSpec]
        ELSE IF hits = {} THEN [err |-> "unknown field key", spec |-> NoSpec]
        ELSE [err |-> "none",
              spec |-> CodingProfile.fields[CHOOSE i \in hits : \A j \in hits : i <= j]]

\* LongCodingManager.write_field
WriteField(m, dir, ecu, key, value, mode) ==
    LET perr == CodingProfileForEcu(ecu)
        sk   == CodingSpecForKey(key)
        spec == sk.spec
        gate == CodingEnforceMode(mode, spec.risk)
        did  == CodingProfile.did
        expected_len == CodingProfile.length
        AfterWrite(s3, w, b) ==
            IF w.err # "none" THEN { Run(w.err, Append(s3, w.ev), w.mem, b.dir, None) }
            ELSE { LET rb == ReadEv(w.mem, did, r2)
                       s5 == Append(Append(s3, w.ev), rb)
                   IN  IF r2 # "ok" THEN Run("read failed", s5, w.mem, b.dir, None)
                       ELSE IF LengthError(rb.data, expected_len)
                           THEN Run("unexpected coding length", s5, w.mem, b.dir, None)
                       ELSE Run("ok", s5, w.mem, b.dir, b.id)
                   : r2 \in ReadResults }
        AfterRead(r1) ==
            LET rd  == ReadEv(m, did, r1)
                enc == EncodeFieldValue(spec, value)
                new == SetBits(rd.data, spec.byte, spec.bit, spec.length, enc.val)
                b   == CreateWriteBackup(dir, CodingProfile.ecu, did, spec.key, rd.data, new.buf)
                s3  == <<rd, Ev("backup", did, rd.data, b.id, [k |-> "ok", nrc |-> 0], <<>>)>>
            IN  IF r1 # "ok" THEN { Run("read failed", <<rd>>, m, dir, None) }
                ELSE IF LengthError(rd.data, expected_len)
                    THEN { Run("unexpected coding length", <<rd>>, m, dir, None) }
                ELSE IF enc.err # "none" THEN { Run(enc.err, <<rd>>, m, dir, None) }
                ELSE IF new.err # "none" THEN { Run(new.err, <<rd>>, m, dir, None) }
                ELSE UNION { AfterWrite(s3, w, b) : w \in WriteDid(m, did, new.buf) }
    IN  IF perr # "none" THEN { Run(perr, <<>>, m, dir, None) }
        ELSE IF sk.err # "none" THEN { Run(sk.err, <<>>, m, dir, None) }
        ELSE IF gate # "none" THEN { Run(gate, <<>>, m, dir, None) }
        ELSE UNION { AfterRead(r1) : r1 \in ReadResults }

\* write_raw with the mode test of write_field (advanced passes)
CodingWriteRawAdvanced(m, dir, ecu, did0, hex_payload, mode) ==
    LET e    == NormalizeEcu(ecu)
        did  == did0 % 65536
        new  == ParseHex(hex_payload)
        AfterWrite(s3, w, b) ==
            IF w.err # "none" THEN { Run(w.err, Append(s3, w.ev), w.mem, b.dir, None) }
            ELSE { LET rb == ReadEv(w.mem, did, r2)
                       s5 == Append(Append(s3, w.ev), rb)
                   IN  IF r2 # "ok" THEN Run("read failed", s5, w.mem, b.dir, None)
                       ELSE Run("ok", s5, w.mem, b.dir, b.id)
                   : r2 \in ReadResults }
        AfterRead(r1) ==
            LET rd == ReadEv(m, did, r1)
                b  == CreateWriteBackup(dir, e.ecu, did, "", rd.data, new.bytes)
                s3 == <<rd, Ev("backup", did, rd.data, b.id, [k |-> "ok", nrc |-> 0], <<>>)>>
            IN  IF r1 # "ok" THEN { Run("read failed", <<rd>>, m, dir, None) }
                ELSE UNION { AfterWrite(s3, w, b) : w \in WriteDid(m, did, new.bytes) }
    IN  IF mode.norm \notin {"advanced", "unsafe"}
            THEN { Run("write-raw requires --mode unsafe", <<>>, m, dir, None) }
        ELSE IF ~e.ok THEN { Run(e.err, <<>>, m, dir, None) }
        ELSE IF ~new.ok THEN { Run(new.err, <<>>, m, dir, None) }
        ELSE UNION { AfterRead(r1) : r1 \in EcuReadResults(e.ecu) }

\* LongCodingManager.write_raw
CodingWriteRaw(m, dir, ecu, did0, hex_payload, mode) ==
    LET e    == NormalizeEcu(ecu)
        did  == did0 % 65536
        new  == ParseHex(hex_payload)
        AfterWrite(s3, w, b) ==
            IF w.err # "none" THEN { Run(w.err, Append(s3, w.ev), w.mem, b.dir, None) }
            ELSE { LET rb == ReadEv(w.mem, did, r2)
                       s5 == Append(Append(s3, w.ev), rb)
                   IN  IF r2 # "ok" THEN Run("read failed", s5, w.mem, b.dir, None)
                       ELSE Run("ok", s5, w.mem, b.dir, b.id)
                   : r2 \in ReadResults }
        AfterRead(r1) ==
            LET rd == ReadEv(m, did, r1)
                b  == CreateWriteBackup(dir, e.ecu, did, "", rd.data, new.bytes)
                s3 == <<rd, Ev("backup", did, rd.data, b.id, [k |-> "ok", nrc |-> 0], <<>>)>>
            IN  IF r1 # "ok" THEN { Run("read failed", <<rd>>, m, dir, None) }
                ELSE UNION { AfterWrite(s3, w, b) : w \in WriteDid(m, did, new.bytes) }
    IN  IF mode.norm # "unsafe" THEN { Run("write-raw requires --mode unsafe", <<>>, m, dir, None) }
        ELSE IF ~e.ok THEN { Run(e.err, <<>>, m, dir, None) }
        ELSE IF ~new.ok THEN { Run(new.err, <<>>, m, dir, None) }
        ELSE UNION { AfterRead(r1) : r1 \in EcuReadResults(e.ecu) }

\* revert without the test of the record's kind and old_hex
CodingRevertAnyRecord(m, dir, backup_id) ==
    LET ld  == Load(dir, backup_id)
        rec == ld.rec
        old == ParseHex(rec.old_hex)
        AfterWrite(w) ==
            IF w.err # "none" THEN { Run(w.err, <<w.ev>>, w.mem, dir, None) }
            ELSE { LET rb == ReadEv(w.mem, rec.did, r2)
                   IN  IF r2 # "ok" THEN Run("read failed", <<w.ev, rb>>, w.mem, dir, None)
                       ELSE Run("ok", <<w.ev, rb>>, w.mem, dir, rec.backup_id)
                   : r2 \in ReadResults }
    IN  IF ~ld.ok THEN { Run(ld.err, <<>>, m, dir, None) }
        ELSE IF ~old.ok THEN { Run(old.err, <<>>, m, dir, None) }
        ELSE UNION { AfterWrite(w) : w \in WriteDid(m, rec.did, old.bytes) }

\* LongCodingManager.revert
CodingRevert(m, dir, backup_id) ==
    LET ld  == Load(dir, backup_id)
        rec == ld.rec
        old == ParseHex(rec.old_hex)
        AfterWrite(w) ==
            IF w.err # "none" THEN { Run(w.err, <<w.ev>>, w.mem, dir, None) }
            ELSE { LET rb == ReadEv(w.mem, rec.did, r2)
                   IN  IF r2 # "ok" THEN Run("read failed", <<w.ev, rb>>, w.mem, dir, None)
                       ELSE Run("ok", <<w.ev, rb>>, w.mem, dir, rec.backup_id)
                   : r2 \in ReadResults }
    IN  IF ~ld.ok THEN { Run(ld.err, <<>>, m, dir, None) }
        ELSE IF rec.kind # "did_write" \/ ~Truthy(rec.old_hex)
            THEN { Run("backup is not a write backup", <<>>, m, dir, None) }
        ELSE IF ~old.ok THEN { Run(old.err, <<>>, m, dir, None) }
        ELSE UNION { AfterWrite(w) : w \in WriteDid(m, rec.did, old.bytes) }

\* LongCodingManager.backup_field
BackupField(m, dir, ecu, key) ==
    LET perr == CodingProfileForEcu(ecu)
        sk   == CodingSpecForKey(key)
        did  == CodingProfile.did
        AfterRead(r1) ==
            LET rd == ReadEv(m, did, r1)
                b  == CreateSnapshotBackup(dir, CodingProfile.ecu, did, sk.spec.key, rd.data)
            IN  IF r1 # "ok" THEN Run("read failed", <<rd>>, m, dir, None)
                ELSE IF LengthError(rd.data, CodingProfile.length)
                    THEN Run("unexpected coding length", <<rd>>, m, dir, None)
                ELSE Run("ok", <<rd, Ev("snapshot", did, rd.data, b.id, [k |-> "ok", nrc |-> 0], <<>>)>>,
                         m, b.dir, b.id)
    IN  IF perr # "none" THEN { Run(perr, <<>>, m, dir, None) }
        ELSE IF sk.err # "none" THEN { Run(sk.err, <<>>, m, dir, None) }
        ELSE { AfterRead(r1) : r1 \in ReadResults }

(***************************************************************************)
(* The diagnostic service facade (core/service.py) and the unsafe          *)
(* credential gate (unsafe.py).                                            *)
(***************************************************************************)
StoredPassword == <<20, 14, 24, 20>>

\* unsafe.verify_password, require_password: scrypt keys are equal exactly
\* when the passwords are; the error raised, "none" when verified
RequirePassword(password, configured) ==
    IF ~configured THEN "unsafe password is not configured"
    ELSE IF password = <<>> THEN "invalid unsafe password"
    ELSE IF password # StoredPassword THEN "invalid unsafe password"
    ELSE "none"

\* what a caller passes beside the write itself: the unsafe password (None,
\* "", another text, the configured one) and whether one is configured, the
\* security level (None or 0x01) and key_hex (None or "ab")
Credentials ==
    { [pw |-> None, cfg |-> TRUE, lvl |-> None, kh |-> None],
      [pw |-> <<>>, cfg |-> TRUE, lvl |-> None, kh |-> None],
      [pw |-> <<28, 28>>, cfg |-> TRUE, lvl |-> <<1>>, kh |-> <<10, 11>>],
      [pw |-> StoredPassword, cfg |-> FALSE, lvl |-> None, kh |-> None],
      [pw |-> StoredPassword, cfg |-> TRUE, lvl |-> None, kh |-> None],
      [pw |-> StoredPassword, cfg |-> TRUE, lvl |-> <<1>>, kh |-> None],
      [pw |-> StoredPassword, cfg |-> TRUE, lvl |-> <<1>>, kh |-> <<10, 11>>] }

\* the calls of a service write: every mode with the configured password,
\* unsafe mode with every credential, another ECU
ServiceModeInputs ==
    [ecu : {Ecu09}, mode : ModeInputs \ {[norm |-> "expert", exact |-> TRUE]},
     c : {[pw |-> StoredPassword, cfg |-> TRUE, lvl |-> <<1>>, kh |-> <<10, 11>>]}]
        \cup [ecu : {Ecu09}, mode : {Unsafe}, c : Credentials]
        \cup [ecu : {<<28, 28>>}, mode : {Unsafe},
              c : {[pw |-> StoredPassword, cfg |-> TRUE, lvl |-> None, kh |-> None]}]

\* an unlock that goes on when the ECU rejects the key
SecurityUnlockKeyUnchecked(ecu, level, key_hex) ==
    LET seed(r) == Ev("seed", level[1] % 256, <<>>, None, [k |-> r, nrc |-> 0], <<>>)
        key(r)  == Ev("key", (level[1] + 1) % 256, ParseHex(key_hex).bytes, None,
                      [k |-> r, nrc |-> 0], <<>>)
    IN  { [err |-> "seed request failed", steps |-> <<seed("err")>>] }
        \cup
        ( IF key_hex = None THEN { [err |-> "key is required", steps |-> <<seed("ok")>>] }
          ELSE IF ~ParseHex(key_hex).ok THEN { [err |-> "invalid hex", steps |-> <<seed("ok")>>] }
          ELSE { [err |-> "none", steps |-> <<seed("ok"), key(r)>>]
                 : r \in EcuReadResults(ecu) } )

\* DiagnosticService.security_unlock: [err, steps], one per answer of the ECU.
\* No algorithm module is configured, so a missing key_hex is an error.
SecurityUnlock(ecu, level, key_hex) ==
    LET seed(r) == Ev("seed", level[1] % 256, <<>>, None, [k |-> r, nrc |-> 0], <<>>)
        key(r)  == Ev("key", (level[1] + 1) % 256, ParseHex(key_hex).bytes, None,
                      [k |-> r, nrc |-> 0], <<>>)
    IN  { [err |-> "seed request failed", steps |-> <<seed("err")>>] }
        \cup
        ( IF key_hex = None THEN { [err |-> "key is required", steps |-> <<seed("ok")>>] }
          ELSE IF ~ParseHex(key_hex).ok THEN { [err |-> "invalid hex", steps |-> <<seed("ok")>>] }
          ELSE { [err |-> IF r = "ok" THEN "none" ELSE "key rejected",
                  steps |-> <<seed("ok"), key(r)>>] : r \in EcuReadResults(ecu) } )

\* the head of a service write with the password check after the unlock
ServiceGateUnlockFirst(mode, password, configured, ecu, level, key_hex) ==
    LET pwerr == IF mode.norm # "unsafe" THEN "none"
                 ELSE IF password = None THEN "unsafe password is required"
                 ELSE RequirePassword(password, configured)
        e     == NormalizeEcu(ecu)
        pw(u) == IF pwerr # "none" THEN [err |-> pwerr, steps |-> u.steps, ecu |-> <<>>]
                 ELSE [err |-> u.err,
                       steps |-> IF mode.norm = "unsafe"
                                    THEN Append(u.steps, Ev("password", 0, <<>>, None,
                                                            [k |-> "ok", nrc |-> 0], <<>>))
                                 ELSE u.steps,
                       ecu |-> e.ecu]
    IN  IF ~e.ok THEN { [err |-> e.err, steps |-> <<>>, ecu |-> <<>>] }
        ELSE IF level = None THEN { pw([err |-> "none", steps |-> <<>>]) }
        ELSE { pw(u) : u \in SecurityUnlock(e.ecu, level, key_hex) }

\* the head the four service write methods share: the unsafe password, the
\* ECU address, the SecurityAccess exchange; [err, steps, ecu]
ServiceGate(mode, password, configured, ecu, level, key_hex) ==
    LET pwerr == IF mode.norm # "unsafe" THEN "none"
                 ELSE IF password = None THEN "unsafe password is required"
                 ELSE RequirePassword(password, configured)
        s0    == IF mode.norm = "unsafe"
                    THEN <<Ev("password", 0, <<>>, None, [k |-> "ok", nrc |-> 0], <<>>)>>
                 ELSE <<>>
        e     == NormalizeEcu(ecu)
    IN  IF pwerr # "none" THEN { [err |-> pwerr, steps |-> <<>>, ecu |-> <<>>] }
        ELSE IF ~e.ok THEN { [err |-> e.err, steps |-> s0, ecu |-> <<>>] }
        ELSE IF level = None THEN { [err |-> "none", steps |-> s0, ecu |-> e.ecu] }
        ELSE { [err |-> u.err, steps |-> s0 \o u.steps, ecu |-> e.ecu]
               : u \in SecurityUnlock(e.ecu, level, key_hex) }

\* the ECU addresses the heads of a service method pass on to the manager
Passed(gate) == { g.ecu : g \in { h \in gate : h.err = "none" } }

\* a service method: its head, then the engine call on the manager (engine
\* maps the ECU address passed on to the runs of the engine call)
Behind(gate, m, dir, engine) ==
    UNION { IF g.err # "none" THEN { Run(g.err, g.steps, m, dir, None) }
            ELSE { [o EXCEPT !.steps = g.steps \o o.steps] : o \in engine[g.ecu] }
            : g \in gate }

\* DiagnosticService._adaptations_manager: AdaptationsManager.__init__ takes
\* no log_dir, so the construction raises TypeError
AdaptationsManagerError == "TypeError: unexpected keyword argument log_dir"

\* DiagnosticService.write_adaptation
ServiceWriteAdaptation(m, dir, ecu, key, value, mode, password, configured, level, key_hex) ==
    LET gate   == ServiceGate(mode, password, configured, ecu, level, key_hex)
        engine == [e \in Passed(gate) |-> { Run(AdaptationsManagerError, <<>>, m, dir, None) }]
    IN  Behind(gate, m, dir, engine)

\* DiagnosticService.write_adaptation_raw
ServiceWriteAdaptationRaw(m, dir, ecu, did, hex, mode, password, configured, level, key_hex) ==
    LET gate   == ServiceGate(mode, password, configured, ecu, level, key_hex)
        engine == [e \in Passed(gate) |-> { Run(AdaptationsManagerError, <<>>, m, dir, None) }]
    IN  Behind(gate, m, dir, engine)

\* DiagnosticService.write_coding_field
ServiceWriteCodingField(m, dir, ecu, key, value, mode, password, configured, level, key_hex) ==
    LET gate   == ServiceGate(mode, password, configured, ecu, level, key_hex)
        engine == [e \in Passed(gate) |-> WriteField(m, dir, e, key, value, mode)]
    IN  Behind(gate, m, dir, engine)

\* DiagnosticService.write_coding_raw
ServiceWriteCodingRaw(m, dir, ecu, did, hex, mode, password, configured, level, key_hex) ==
    LET gate   == ServiceGate(mode, password, configured, ecu, level, key_hex)
        engine == [e \in Passed(gate) |-> CodingWriteRaw(m, dir, e, did, hex, mode)]
    IN  Behind(gate, m, dir, engine)

(***************************************************************************)
(* ISO-TP (core/isotp/transport.py): frames, and the fields of one         *)
(* IsoTpTransport.  A CAN frame is [id, data]; data is at most 8 bytes.    *)
(***************************************************************************)
RECURSIVE BitAnd(_, _)
\* a & b on naturals
BitAnd(a, b) ==
    IF a = 0 \/ b = 0 THEN 0
    ELSE (IF a % 2 = 1 /\ b % 2 = 1 THEN 1 ELSE 0) + 2 * BitAnd(a \div 2, b \div 2)

RECURSIVE BitOr(_, _)
\* a | b on naturals
BitOr(a, b) ==
    IF a = 0 THEN b
    ELSE IF b = 0 THEN a
    ELSE (IF a % 2 = 1 \/ b % 2 = 1 THEN 1 ELSE 0) + 2 * BitOr(a \div 2, b \div 2)

RECURSIVE ShiftLeft(_, _)
\* a << n
ShiftLeft(a, n) == IF n = 0 THEN a ELSE ShiftLeft(2 * a, n - 1)

RECURSIVE ShiftRight(_, _)
\* a >> n
ShiftRight(a, n) == IF n = 0 THEN a ELSE ShiftRight(a \div 2, n - 1)

Min(a, b) == IF a <= b THEN a ELSE b

\* payload[from:] and payload[from:to] of Python, 0-based, to exclusive
SliceFrom(s, from) == SubSeq(s, from + 1, Len(s))

Slice(s, from, to) == SubSeq(s, from + 1, Min(to, Len(s)))

Zeros(n) == [i \in 1..n |-> 0]

\* _encode_st_min
EncodeStMin(st_min_ms) ==
    IF st_min_ms < 0 THEN 0
    ELSE IF st_min_ms <= 127 THEN st_min_ms
    ELSE 127

\* _decode_st_min, in units of 100 microseconds
DecodeStMin(value) ==
    IF value <= 127 THEN value * 10
    ELSE IF 241 <= value /\ value <= 249 THEN value - 240
    ELSE 0

\* _send_can: the frame data sent, padded with zero bytes to 8
SendCan(payload) ==
    IF Len(payload) > 8 THEN [ok |-> FALSE, data |-> <<>>]
    ELSE [ok |-> TRUE, data |-> payload \o Zeros(8 - Len(payload))]

\* _send_payload: the PCI and data of a single frame
SingleFrame(payload) == <<BitAnd(Len(payload), 15)>> \o payload

\* _send_payload: the first frame, with the 12-bit length
FirstFrame(payload) ==
    <<BitOr(16, BitAnd(ShiftRight(Len(payload), 8), 15)), BitAnd(Len(payload), 255)>>
        \o Slice(payload, 0, 6)

\* a sequence number that wraps at 8
ConsecutiveFrameWrapsAt8(seq, chunk) == <<BitOr(32, BitAnd(seq, 7))>> \o chunk

\* _send_consecutive_frames: one consecutive frame
ConsecutiveFrame(seq, chunk) == <<BitOr(32, BitAnd(seq, 15))>> \o chunk

\* _send_flow_control
FlowControlFrame(block_size, st_min_ms) ==
    <<48, BitAnd(block_size, 255), EncodeStMin(st_min_ms)>>

\* IsoTpTransport.__init__, and the locals of the call in progress
TpInstance(tx_id, rx_id, block_size, st_min_ms, timeout_ms) ==
    [tx_id |-> tx_id, rx_id |-> rx_id, block_size |-> block_size,
     st_min_ms |-> st_min_ms, timeout_ms |-> timeout_ms,
     op |-> "none", pc |-> "idle",
     payload |-> <<>>, offset |-> 0, seq |-> 1, frames_in_block |-> 0,
     fc_block_size |-> 0, fc_st_min |-> 0,
     buffer |-> <<>>, total_len |-> 0, expected_seq |-> 1, rx_frames_in_block |-> 0,
     deadline |-> 0, waited |-> 0,
     result |-> None, err_kind |-> "none", err |-> "none", log |-> <<>>]

\* an IsoTpProtocolError or IsoTpTimeoutError leaves the call
Fail(s, kind, err) == [s EXCEPT !.pc = "error", !.err_kind = kind, !.err = err]

\* the call returns the payload received
Done(s, result) == [s EXCEPT !.pc = "done", !.result = result]

\* self._can.recv returned frame f
Received(s, f) == [s EXCEPT !.log = Append(@, [k |-> "rx", id |-> f.id, data |-> f.data])]

\* _send_can, then the endpoint goes on as s: [s, out], out the frames sent
Transmit(s, payload) ==
    LET c == SendCan(payload)
    IN  IF ~c.ok THEN [s |-> Fail(s, "protocol", "CAN frame too large"), out |-> <<>>]
        ELSE [s   |-> [s EXCEPT !.log = Append(@, [k |-> "tx", id |-> s.tx_id, data |-> c.data])],
              out |-> <<[id |-> s.tx_id, data |-> c.data]>>]

\* _recv_payload(timeout_ms) is entered at time t: _recv_frame sets its deadline
EnterRecv(s, t) == [s EXCEPT !.pc = "recv_first", !.deadline = t + s.timeout_ms]

\* a length limit of 4096 in place of 4095
StartRequestLimit4096(s, payload, t) ==
    LET s0 == [s EXCEPT !.op = "request", !.payload = payload,
                        !.offset = 0, !.seq = 1, !.frames_in_block = 0]
    IN  IF Len(payload) <= 7 THEN Transmit(EnterRecv(s0, t), SingleFrame(payload))
        ELSE IF Len(payload) > 4096
            THEN [s |-> Fail(s0, "protocol", "payload too large"), out |-> <<>>]
        ELSE Transmit([s0 EXCEPT !.pc = "await_fc", !.deadline = t + s.timeout_ms],
                      FirstFrame(payload))

\* request(payload), up to the first wait of _send_payload
StartRequest(s, payload, t) ==
    LET length == Len(payload)
        s0 == [s EXCEPT !.op = "request", !.payload = payload,
                        !.offset = 0, !.seq = 1, !.frames_in_block = 0]
    IN  IF length <= 7 THEN Transmit(EnterRecv(s0, t), SingleFrame(payload))
        ELSE IF length > 4095
            THEN [s |-> Fail(s0, "protocol", "payload too large"), out |-> <<>>]
        ELSE Transmit([s0 EXCEPT !.pc = "await_fc", !.deadline = t + s.timeout_ms],
                      FirstFrame(payload))

\* recv_response(), up to its first wait
StartRecvResponse(s, t) == [s |-> EnterRecv([s EXCEPT !.op = "recv_response"], t), out |-> <<>>]

\* a flow-control frame with FS=wait taken as FS=continue
AwaitFlowControlWaitReleases(s, f) ==
    LET s1   == Received(s, f)
        data == f.data
    IN  IF f.id = s.rx_id /\ Len(data) >= 3 /\ ShiftRight(data[1], 4) = 3
           /\ BitAnd(data[1], 15) <= 1
            THEN [s |-> [s1 EXCEPT !.pc = "send_cf", !.fc_block_size = data[2],
                                   !.fc_st_min = DecodeStMin(data[3]),
                                   !.frames_in_block = 0],
                  out |-> <<>>]
        ELSE [s |-> s1, out |-> <<>>]

\* _await_flow_control: one turn of its loop, on frame f
AwaitFlowControl(s, f) ==
    LET s1   == Received(s, f)
        data == f.data
        flow_status == BitAnd(data[1], 15)
    IN  IF f.id # s.rx_id THEN [s |-> s1, out |-> <<>>]
        ELSE IF data = <<>> THEN [s |-> s1, out |-> <<>>]
        ELSE IF ShiftRight(data[1], 4) # 3 THEN [s |-> s1, out |-> <<>>]
        ELSE IF Len(data) < 3
            THEN [s |-> Fail(s1, "protocol", "short flow control"), out |-> <<>>]
        ELSE IF flow_status = 0
            THEN [s |-> [s1 EXCEPT !.pc = "send_cf", !.fc_block_size = data[2],
                                   !.fc_st_min = DecodeStMin(data[3]),
                                   !.frames_in_block = 0],
                  out |-> <<>>]
        ELSE IF flow_status = 1 THEN [s |-> s1, out |-> <<>>]
        ELSE IF flow_status = 2
            THEN [s |-> Fail(s1, "protocol", "flow control overflow"), out |-> <<>>]
        ELSE [s |-> Fail(s1, "protocol", "invalid flow control status"), out |-> <<>>]

\* a sender that waits for flow control after every full block, the last
\* one included
SendConsecutiveFrameWaitsAtEnd(s, t) ==
    LET payload == SliceFrom(s.payload, 6)
        chunk   == Slice(payload, s.offset, s.offset + 7)
        offset  == s.offset + Len(chunk)
        frames_in_block == s.frames_in_block + 1
        s1 == [s EXCEPT !.offset = offset, !.seq = BitAnd(s.seq + 1, 15),
                        !.frames_in_block = frames_in_block]
        s2 == IF s.fc_block_size # 0 /\ frames_in_block >= s.fc_block_size
                  THEN [s1 EXCEPT !.pc = "await_fc", !.deadline = t + s.timeout_ms,
                                  !.frames_in_block = 0]
              ELSE IF offset < Len(payload) THEN s1
              ELSE EnterRecv(s1, t)
    IN  Transmit(s2, ConsecutiveFrame(s.seq, chunk))

\* _send_consecutive_frames: one turn of its loop, at time t
SendConsecutiveFrame(s, t) ==
    LET payload == SliceFrom(s.payload, 6)
        chunk   == Slice(payload, s.offset, s.offset + 7)
        offset  == s.offset + Len(chunk)
        frames_in_block == s.frames_in_block + 1
        s1 == [s EXCEPT !.offset = offset, !.seq = BitAnd(s.seq + 1, 15),
                        !.frames_in_block = frames_in_block]
        s2 == IF s.fc_block_size # 0 /\ frames_in_block >= s.fc_block_size
                 /\ offset < Len(payload)
                  THEN [s1 EXCEPT !.pc = "await_fc", !.deadline = t + s.timeout_ms,
                                  !.frames_in_block = 0]
              ELSE IF offset < Len(payload) THEN s1
              ELSE EnterRecv(s1, t)
    IN  Transmit(s2, ConsecutiveFrame(s.seq, chunk))

\* _recv_payload on the frame f that _recv_frame returned, at time t
RecvFirst(s, f, t) ==
    LET s1   == Received(s, f)
        data == f.data
        frame_type == ShiftRight(data[1], 4)
        length     == BitAnd(data[1], 15)
        total_len  == BitOr(ShiftLeft(BitAnd(data[1], 15), 8), data[2])
        buffer     == SliceFrom(data, 2)
        fail(e)    == [s |-> Fail(s1, "protocol", e), out |-> <<>>]
    IN  IF f.id # s.rx_id THEN [s |-> s1, out |-> <<>>]
        ELSE IF data = <<>> THEN fail("empty frame")
        ELSE IF frame_type = 0
            THEN IF length > Len(data) - 1 THEN fail("single frame length mismatch")
                 ELSE [s |-> Done(s1, Slice(data, 1, 1 + length)), out |-> <<>>]
        ELSE IF frame_type = 1
            THEN IF Len(data) < 2 THEN fail("short first frame")
                 ELSE IF total_len <= 7 THEN fail("invalid first frame length")
                 ELSE Transmit(
                        IF Len(buffer) < total_len
                            THEN [s1 EXCEPT !.pc = "recv_cf", !.buffer = buffer,
                                            !.total_len = total_len, !.expected_seq = 1,
                                            !.rx_frames_in_block = 0,
                                            !.deadline = t + s.timeout_ms]
                        ELSE Done([s1 EXCEPT !.buffer = buffer, !.total_len = total_len],
                                  Slice(buffer, 0, total_len)),
                        FlowControlFrame(s.block_size, s.st_min_ms))
        ELSE IF frame_type = 2 THEN fail("unexpected consecutive frame")
        ELSE IF frame_type = 3 THEN fail("unexpected flow control")
        ELSE fail("unknown frame type")

\* an expected sequence number that does not wrap to 0 after 15
RecvConsecutiveNoWrap(s, f, t) ==
    LET s1   == Received(s, f)
        data == f.data
        buffer == s.buffer \o SliceFrom(data, 1)
        frames_in_block == s.rx_frames_in_block + 1
        again == s.block_size # 0 /\ frames_in_block >= s.block_size
                    /\ Len(buffer) < s.total_len
        s2 == [s1 EXCEPT !.buffer = buffer, !.expected_seq = s.expected_seq + 1,
                         !.rx_frames_in_block = IF again THEN 0 ELSE frames_in_block]
        s3 == IF Len(buffer) < s.total_len THEN [s2 EXCEPT !.deadline = t + s.timeout_ms]
              ELSE Done(s2, Slice(buffer, 0, s.total_len))
        fail(e) == [s |-> Fail(s1, "protocol", e), out |-> <<>>]
    IN  IF f.id # s.rx_id THEN [s |-> s1, out |-> <<>>]
        ELSE IF data = <<>> THEN fail("empty consecutive frame")
        ELSE IF ShiftRight(data[1], 4) # 2 THEN fail("unexpected frame while receiving")
        ELSE IF data[1] - 32 # s.expected_seq THEN fail("sequence number mismatch")
        ELSE IF again THEN Transmit(s3, FlowControlFrame(s.block_size, s.st_min_ms))
        ELSE [s |-> s3, out |-> <<>>]

\* _recv_consecutive_frames: one turn of its loop on frame f, at time t
RecvConsecutive(s, f, t) ==
    LET s1   == Received(s, f)
        data == f.data
        buffer == s.buffer \o SliceFrom(data, 1)
        frames_in_block == s.rx_frames_in_block + 1
        again == s.block_size # 0 /\ frames_in_block >= s.block_size
                    /\ Len(buffer) < s.total_len
        s2 == [s1 EXCEPT !.buffer = buffer, !.expected_seq = BitAnd(s.expected_seq + 1, 15),
                         !.rx_frames_in_block = IF again THEN 0 ELSE frames_in_block]
        s3 == IF Len(buffer) < s.total_len THEN [s2 EXCEPT !.deadline = t + s.timeout_ms]
              ELSE Done(s2, Slice(buffer, 0, s.total_len))
        fail(e) == [s |-> Fail(s1, "protocol", e), out |-> <<>>]
    IN  IF f.id # s.rx_id THEN [s |-> s1, out |-> <<>>]
        ELSE IF data = <<>> THEN fail("empty consecutive frame")
        ELSE IF ShiftRight(data[1], 4) # 2 THEN fail("unexpected frame while receiving")
        ELSE IF BitAnd(data[1], 15) # s.expected_seq THEN fail("sequence number mismatch")
        ELSE IF again THEN Transmit(s3, FlowControlFrame(s.block_size, s.st_min_ms))
        ELSE [s |-> s3, out |-> <<>>]

\* _await_flow_control, _recv_frame: the deadline has passed
TimedOut(s) ==
    [s |-> Fail(s, "timeout", IF s.pc = "await_fc" THEN "timeout waiting for flow control"
                              ELSE "timeout waiting for CAN frame"),
     out |-> <<>>]

\* the tester's endpoint for ECU 00 in 11-bit mode and the endpoint opposite
TesterTxId == 2016

TesterRxId == 2024

\* timeout_ms of the endpoints, a few milliseconds
TpTimeout == 2

Endpoints == {"A", "B"}

\* no ISO-TP operation in progress
TpIdle ==
    /\ tp = [i \in Endpoints |->
                IF i = "A" THEN TpInstance(TesterTxId, TesterRxId, 8, 10, TpTimeout)
                ELSE TpInstance(TesterRxId, TesterTxId, 8, 10, TpTimeout)]
    /\ wire = [i \in Endpoints |-> <<>>]
    /\ now = 0
    /\ uds = [pc |-> "idle", by |-> "none", ecu |-> 0, mode |-> "11bit", sid |-> 0,
              ids |-> [ok |-> FALSE, tx |-> 0, rx |-> 0, err |-> "none"],
              deadline |-> 0, pendings |-> 0, result |-> None, err |-> "none"]
    /\ scan = [pc |-> "idle"]
    /\ ipc = [pc |-> "closed"]
    /\ dtc = [pc |-> "idle"]
    /\ dtcs = [pc |-> "idle"]
    /\ codec = [pc |-> "idle"]
    /\ conc = [pc |-> "idle"]
    /\ calls = [n |-> 0, answers |-> <<>>, rpm_reads |-> 0, log |-> <<>>]

(***************************************************************************)
(* The state machine: one action per operation.                            *)
(***************************************************************************)
TheDir == Dir(files, indexJsonl, indexTxt)

AnyMode == [norm |-> "", exact |-> TRUE]

NoTarget == [known |-> FALSE, did |-> 0, pre |-> <<>>, op |-> "", isfresh |-> FALSE]

\* history: the backups a run created, appended to those created before
RECURSIVE IssuedAfter(_, _, _)
IssuedAfter(iss, steps, op) ==
    IF steps = <<>> THEN iss
    ELSE LET e == Head(steps)
         IN  IssuedAfter(IF e.t \in {"backup", "snapshot"}
                             THEN Append(iss, [id |-> e.id, did |-> e.did, pre |-> e.data,
                                               op |-> op, kind |-> e.t])
                         ELSE iss, Tail(steps), op)

\* history: per DID, the backup (its place in issued) of the engine write
\* whose payload the DID holds unchanged since, 0 when there is none
RECURSIVE FreshAfter(_, _, _)
FreshAfter(fr, steps, n) ==
    IF steps = <<>> THEN fr
    ELSE LET e == Head(steps)
         IN  FreshAfter(IF e.t = "write" /\ e.resp.k = "pos"
                            THEN [fr EXCEPT ![e.did] = IF e.stored = e.data THEN n ELSE 0]
                        ELSE fr, Tail(steps), n)

\* history: the write backup a revert names, as the write that made it left it
Target(backup_id) ==
    LET id   == Format06d(DigitsValue(backup_id))
        hits == { i \in 1..Len(issued) : issued[i].id = id /\ issued[i].kind = "backup" }
        i    == CHOOSE x \in hits : \A y \in hits : y <= x
    IN  IF IsDigitText(backup_id) /\ hits # {}
            THEN [known |-> TRUE, did |-> issued[i].did, pre |-> issued[i].pre,
                  op |-> issued[i].op, isfresh |-> fresh[issued[i].did] = i]
        ELSE NoTarget

\* one operation: the run o the handler took on the inputs given
FinishLevel(op, via, ecu, mode, key, value, pwok, lvl, tgt, o) ==
    LET iss == IssuedAfter(issued, o.steps, op)
    IN  /\ Len(iss) <= MaxBackups
        /\ mem' = o.mem
        /\ files' = o.dir.files
        /\ indexJsonl' = o.dir.jsonl
        /\ indexTxt' = o.dir.txt
        /\ issued' = iss
        /\ fresh' = FreshAfter(fresh, o.steps, IF Len(iss) > Len(issued) THEN Len(iss) ELSE 0)
        /\ bus' = bus
        /\ UNCHANGED <<tp, wire, now, uds, scan, ipc, dtc, dtcs, LabVars>>
        /\ last' = [op |-> op, via |-> via, ecu |-> ecu, mode |-> mode.norm, key |-> key,
                    value |-> value, pwok |-> pwok, lvl |-> lvl, tgt |-> tgt,
                    res |-> o.res, steps |-> o.steps, bid |-> o.bid]

\* an operation called without a security_level
Finish(op, via, ecu, mode, key, value, pwok, tgt, o) ==
    FinishLevel(op, via, ecu, mode, key, value, pwok, None, tgt, o)

Init ==
    /\ mem = [d \in Dids |-> IF d = AdaptDid THEN <<0>>
                             ELSE IF d = CodingDid THEN <<0, 34>> ELSE <<>>]
    /\ files = <<>>
    /\ indexJsonl = <<>>
    /\ indexTxt = <<>>
    /\ issued = <<>>
    /\ fresh = [d \in Dids |-> 0]
    /\ bus \in {"up", "down"}
    /\ TpIdle
    /\ last = [op |-> "init", via |-> "init", ecu |-> <<>>, mode |-> "", key |-> "",
               value |-> <<>>, pwok |-> FALSE, lvl |-> None, tgt |-> NoTarget,
               res |-> "ok", steps |-> <<>>, bid |-> None]

DoWriteSetting ==
    \E i \in WriteInputs(AdaptKeyInputs) :
        \E o \in WriteSetting(mem, TheDir, i.ecu, i.key, i.value, i.mode) :
            Finish("write_setting", "engine", i.ecu, i.mode, i.key, i.value, FALSE, NoTarget, o)

DoAdaptWriteRaw ==
    \E i \in RawInputs :
        \E o \in AdaptWriteRaw(mem, TheDir, i.ecu, i.did, i.hex, i.mode) :
            Finish("adapt_write_raw", "engine", i.ecu, i.mode, "", i.hex, FALSE, NoTarget, o)

DoAdaptRevert ==
    \E id \in IdInputs :
        \E o \in AdaptRevert(mem, TheDir, id) :
            Finish("adapt_revert", "engine", <<>>, AnyMode, "", id, FALSE, Target(id), o)

DoWriteField ==
    \E i \in WriteInputs(CodingKeyInputs) :
        \E o \in WriteField(mem, TheDir, i.ecu, i.key, i.value, i.mode) :
            Finish("write_field", "engine", i.ecu, i.mode, i.key, i.value, FALSE, NoTarget, o)

DoCodingWriteRaw ==
    \E i \in RawInputs :
        \E o \in CodingWriteRaw(mem, TheDir, i.ecu, i.did, i.hex, i.mode) :
            Finish("coding_write_raw", "engine", i.ecu, i.mode, "", i.hex, FALSE, NoTarget, o)

DoCodingRevert ==
    \E id \in IdInputs :
        \E o \in CodingRevert(mem, TheDir, id) :
            Finish("coding_revert", "engine", <<>>, AnyMode, "", id, FALSE, Target(id), o)

DoBackupField ==
    \E ecu \in EcuInputs, key \in {"drl", "nokey"} :
        \E o \in BackupField(mem, TheDir, ecu, key) :
            Finish("backup_field", "engine", ecu, AnyMode, key, <<>>, FALSE, NoTarget, o)

DoServiceWriteAdaptation ==
    \E i \in ServiceModeInputs, key \in {"idle", "blob"} :
        \E o \in ServiceWriteAdaptation(mem, TheDir, i.ecu, key, <<1>>, i.mode,
                                        i.c.pw, i.c.cfg, i.c.lvl, i.c.kh) :
            FinishLevel("write_setting", "service", i.ecu, i.mode, key, <<1>>,
                   i.c.cfg /\ i.c.pw = StoredPassword, i.c.lvl,
                        NoTarget, o)

DoServiceWriteAdaptationRaw ==
    \E i \in ServiceModeInputs :
        \E o \in ServiceWriteAdaptationRaw(mem, TheDir, i.ecu, RawDid, <<0, 16, 0, 10>>, i.mode,
                                           i.c.pw, i.c.cfg, i.c.lvl, i.c.kh) :
            FinishLevel("adapt_write_raw", "service", i.ecu, i.mode, "", <<0, 16, 0, 10>>,
                   i.c.cfg /\ i.c.pw = StoredPassword, i.c.lvl,
                        NoTarget, o)

DoServiceWriteCodingField ==
    \E i \in ServiceModeInputs, key \in {"drl", "gain"} :
        \E o \in ServiceWriteCodingField(mem, TheDir, i.ecu, key, <<1>>, i.mode,
                                         i.c.pw, i.c.cfg, i.c.lvl, i.c.kh) :
            FinishLevel("write_field", "service", i.ecu, i.mode, key, <<1>>,
                   i.c.cfg /\ i.c.pw = StoredPassword, i.c.lvl,
                        NoTarget, o)

DoServiceWriteCodingRaw ==
    \E i \in ServiceModeInputs :
        \E o \in ServiceWriteCodingRaw(mem, TheDir, i.ecu, RawDid, <<0, 16, 0, 10>>, i.mode,
                                       i.c.pw, i.c.cfg, i.c.lvl, i.c.kh) :
            FinishLevel("coding_write_raw", "service", i.ecu, i.mode, "", <<0, 16, 0, 10>>,
                   i.c.cfg /\ i.c.pw = StoredPassword, i.c.lvl,
                        NoTarget, o)

\* the engines, called directly
Next ==
    \/ DoWriteSetting
    \/ DoAdaptWriteRaw
    \/ DoAdaptRevert
    \/ DoWriteField
    \/ DoCodingWriteRaw
    \/ DoCodingRevert
    \/ DoBackupField

Spec == Init /\ [][Next]_vars

\* DiagnosticService.revert_adaptation: the manager is built before the call
ServiceRevertAdaptation(m, dir, backup_id) ==
    { Run(AdaptationsManagerError, <<>>, m, dir, None) }

\* DiagnosticService.revert_coding
ServiceRevertCoding(m, dir, backup_id) ==
    CodingRevert(m, dir, backup_id)

DoServiceRevertAdaptation ==
    \E id \in IdInputs :
        \E o \in ServiceRevertAdaptation(mem, TheDir, id) :
            Finish("adapt_revert", "service", <<>>, AnyMode, "", id, FALSE, Target(id), o)

DoServiceRevertCoding ==
    \E id \in IdInputs :
        \E o \in ServiceRevertCoding(mem, TheDir, id) :
            Finish("coding_revert", "service", <<>>, AnyMode, "", id, FALSE, Target(id), o)

\* the dataset writes, the snapshot and the reverts, of the engines and of
\* the service facade
RevertNext ==
    \/ DoWriteSetting
    \/ DoAdaptRevert
    \/ DoWriteField
    \/ DoCodingRevert
    \/ DoBackupField
    \/ DoServiceRevertAdaptation
    \/ DoServiceRevertCoding

RevertSpec == Init /\ [][RevertNext]_vars

\* the engines, called through the service facade
ServiceNext ==
    \/ DoServiceWriteAdaptation
    \/ DoServiceWriteAdaptationRaw
    \/ DoServiceWriteCodingField
    \/ DoServiceWriteCodingRaw

ServiceSpec == Init /\ [][ServiceNext]_vars

\* the long-coding field write alone, from every coding image of two bytes
\* drawn from 0x00, 0x22, 0xA5, 0xFF
ImageBytes == {0, 34, 165, 255}

ImageInit ==
    /\ mem \in { [d \in Dids |-> IF d = AdaptDid THEN <<0>>
                                 ELSE IF d = CodingDid THEN <<b0, b1>> ELSE <<>>]
                 : b0 \in ImageBytes, b1 \in ImageBytes }
    /\ files = <<>>
    /\ indexJsonl = <<>>
    /\ indexTxt = <<>>
    /\ issued = <<>>
    /\ fresh = [d \in Dids |-> 0]
    /\ bus = "up"
    /\ TpIdle
    /\ last = [op |-> "init", via |-> "init", ecu |-> <<>>, mode |-> "", key |-> "",
               value |-> <<>>, pwok |-> FALSE, lvl |-> None, tgt |-> NoTarget,
               res |-> "ok", steps |-> <<>>, bid |-> None]

ImageNext == DoWriteField

ImageSpec == ImageInit /\ [][ImageNext]_vars

(***************************************************************************)
(* ISO-TP as a state machine: request() on endpoint A, recv_response() on  *)
(* endpoint B, each taking one step per frame sent or received.            *)
(***************************************************************************)
EngineVars == <<StoreVars, scan, ipc, dtc, dtcs, LabVars>>

\* endpoint i went on as r.s and sent r.out; consumed: it took the frame at
\* the head of its queue
TpApply(i, r, consumed) ==
    /\ tp' = [tp EXCEPT ![i] = r.s]
    /\ wire' = [j \in Endpoints |->
                   IF j = i THEN (IF consumed THEN Tail(wire[j]) ELSE wire[j])
                   ELSE wire[j] \o r.out]
    /\ UNCHANGED <<now, uds>>
    /\ UNCHANGED EngineVars

\* payloads: a pattern of each length, and zero bytes
Pattern(length) == [k \in 1..length |-> (7 * k + length) % 256]

TpLengths == {0, 1, 7, 8, 9, 13, 14, 20, 62, 63, 111, 118, 119, 300, 4095, 4096}

TpPayloads == { Pattern(n) : n \in TpLengths } \cup { Zeros(1), Zeros(8), Zeros(13) }

\* a frame is waiting for endpoint i and its deadline has not passed
CanRecv(i) == wire[i] # <<>> /\ now < tp[i].deadline

DoRequest(i, payloads) ==
    /\ tp[i].pc = "idle"
    /\ \E payload \in payloads : TpApply(i, StartRequest(tp[i], payload, now), FALSE)

DoRecvResponse(i) ==
    /\ tp[i].pc = "idle"
    /\ TpApply(i, StartRecvResponse(tp[i], now), FALSE)

DoAwaitFlowControl(i) ==
    /\ tp[i].pc = "await_fc" /\ CanRecv(i)
    /\ TpApply(i, AwaitFlowControl(tp[i], Head(wire[i])), TRUE)

DoSendConsecutiveFrame(i) ==
    /\ tp[i].pc = "send_cf"
    /\ TpApply(i, SendConsecutiveFrame(tp[i], now), FALSE)

DoRecvFirst(i) ==
    /\ tp[i].pc = "recv_first" /\ CanRecv(i)
    /\ TpApply(i, RecvFirst(tp[i], Head(wire[i]), now), TRUE)

DoRecvConsecutive(i) ==
    /\ tp[i].pc = "recv_cf" /\ CanRecv(i)
    /\ TpApply(i, RecvConsecutive(tp[i], Head(wire[i]), now), TRUE)

\* block sizes endpoint B is constructed with (8 is the default)
TpBlockSizes == {2, 8}

TpInit ==
    /\ Init
    /\ bus = "up"

\* endpoint B is constructed with one of the block sizes
DoConstruct ==
    /\ tp["B"].pc = "idle" /\ tp["A"].pc = "idle" /\ tp["B"].block_size = 8
    /\ tp' = [tp EXCEPT !["B"].block_size = 2]
    /\ UNCHANGED <<wire, now, uds>>
    /\ UNCHANGED EngineVars

TpNext ==
    \/ DoConstruct
    \/ DoRequest("A", TpPayloads)
    \/ DoRecvResponse("B")
    \/ DoAwaitFlowControl("A")
    \/ DoSendConsecutiveFrame("A")
    \/ DoRecvFirst("B")
    \/ DoRecvConsecutive("B")

TpSpec == TpInit /\ [][TpNext]_vars

(***************************************************************************)
(* The sender against any peer: request() on endpoint A, while frames of   *)
(* every kind _await_flow_control tells apart arrive for it.               *)
(***************************************************************************)
\* at most this many frames arrive during one request
MaxInjected == 4

\* at most this many frames wait in the receive queue
MaxQueue == 2

TpShortPayloads == { Pattern(n) : n \in {7, 8, 20, 27} }

Frame(id, data) == [id |-> id, data |-> data]

\* flow control: continue with block sizes 0, 1, 2, wait, overflow, a
\* reserved status, a short frame, a frame that is not flow control, an
\* empty frame, and flow control on another id
FlowControlInputs ==
    { Frame(TesterRxId, <<48, bs, 0>>) : bs \in {0, 1, 2} }
        \cup { Frame(TesterRxId, <<49, 0, 0>>), Frame(TesterRxId, <<50, 0, 0>>),
               Frame(TesterRxId, <<51, 0, 0>>), Frame(TesterRxId, <<48, 0>>),
               Frame(TesterRxId, <<1, 127>>), Frame(TesterRxId, <<>>),
               Frame(TesterRxId + 1, <<48, 0, 0>>) }

\* frames that reached endpoint i so far
Arrived(i) == Len(SelectSeq(tp[i].log, LAMBDA e : e.k = "rx")) + Len(wire[i])

\* a frame from frames arrives for endpoint i while its call is in progress,
\* at most max of them, at most queue of them waiting
Inject(i, frames, max, queue) ==
    /\ tp[i].pc \notin {"idle", "done", "error"}
    /\ Len(wire[i]) < queue /\ Arrived(i) < max
    /\ \E f \in frames : wire' = [wire EXCEPT ![i] = Append(@, f)]
    /\ UNCHANGED <<tp, now, uds>>
    /\ UNCHANGED EngineVars

TpSendNext ==
    \/ DoRequest("A", TpShortPayloads)
    \/ Inject("A", FlowControlInputs, MaxInjected, MaxQueue)
    \/ DoAwaitFlowControl("A")
    \/ DoSendConsecutiveFrame("A")

TpSendSpec == TpInit /\ [][TpSendNext]_vars

(***************************************************************************)
(* The first frame of a message: request() on endpoint A with payloads of  *)
(* every length, recv_response() on endpoint B taking what A sent or a     *)
(* frame of any first-frame or single-frame shape.                         *)
(***************************************************************************)
\* single frames with length nibble 0, 7, 8, 15 in 8 data bytes and 3 in 2
\* data bytes; first frames announcing 0, 7, 8 bytes, and a short one
FirstFrameInputs ==
    { Frame(TesterTxId, <<n, 1, 2, 3, 4, 5, 6, 7>>) : n \in {0, 7, 8, 15} }
        \cup { Frame(TesterTxId, <<16, n, 1, 2, 3, 4, 5, 6>>) : n \in {0, 7, 8} }
        \cup { Frame(TesterTxId, <<3, 1>>), Frame(TesterTxId, <<16>>) }

TpFirstNext ==
    \/ DoRequest("A", TpPayloads)
    \/ DoRecvResponse("B")
    \/ Inject("B", FirstFrameInputs, MaxInjected, MaxQueue)
    \/ DoRecvFirst("B")

TpFirstSpec == TpInit /\ [][TpFirstNext]_vars

(***************************************************************************)
(* The receiver against any peer: recv_response() on endpoint B, while a   *)
(* first frame and then frames of every kind arrive for it.                *)
(***************************************************************************)
\* at most this many frames arrive during one recv_response
MaxReceived == 19

\* first frames announcing 20 and 125 bytes (2 and 17 consecutive frames),
\* consecutive frames with each sequence number, a single frame, flow
\* control, a frame of unknown type and an empty frame
ReassemblyInputs ==
    { Frame(TesterTxId, <<16, n, 1, 2, 3, 4, 5, 6>>) : n \in {20, 125} }
        \cup { Frame(TesterTxId, <<32 + seq, 1, 2, 3, 4, 5, 6, 7>>) : seq \in 0..15 }
        \cup { Frame(TesterTxId, <<2, 1, 2>>), Frame(TesterTxId, <<48, 0, 0>>),
               Frame(TesterTxId, <<64, 0>>), Frame(TesterTxId, <<>>) }

\* a consecutive frame on another id
ForeignInputs == { Frame(TesterTxId + 1, <<33, 1, 2, 3, 4, 5, 6, 7>>) }

\* the frames on other ids that reached endpoint i so far
ArrivedForeign(i) ==
    Len(SelectSeq(tp[i].log, LAMBDA e : e.k = "rx" /\ e.id # tp[i].rx_id))
        + Len(SelectSeq(wire[i], LAMBDA f : f.id # tp[i].rx_id))

\* traffic for another node, at most one frame of it during a call
InjectForeign(i) ==
    /\ ArrivedForeign(i) = 0
    /\ Inject(i, ForeignInputs, MaxReceived, 1)

TpRecvNext ==
    \/ DoRecvResponse("B")
    \/ Inject("B", ReassemblyInputs, MaxReceived, 1)
    \/ InjectForeign("B")
    \/ DoRecvFirst("B")
    \/ DoRecvConsecutive("B")

TpRecvSpec == TpInit /\ [][TpRecvNext]_vars

(***************************************************************************)
(* Time: request() on endpoint A with timeout_ms = TpTimeout, the clock    *)
(* advancing while A waits in _await_flow_control or _recv_frame, and the  *)
(* frames of a response arriving at any moment.                            *)
(***************************************************************************)
\* the clock stops here
MaxTime == 6

Waiting(i) == tp[i].pc \in {"await_fc", "recv_first", "recv_cf"}

\* flow control, a single-frame response, and a response of 13 bytes in a
\* first frame and a consecutive frame
TimedInputs ==
    { Frame(TesterRxId, <<48, 0, 0>>), Frame(TesterRxId, <<2, 80, 1>>),
      Frame(TesterRxId, <<16, 13, 1, 2, 3, 4, 5, 6>>),
      Frame(TesterRxId, <<33, 7, 8, 9, 10, 11, 12, 13>>) }

TpTimedPayloads == { Pattern(n) : n \in {1, 8} }

\* a millisecond passes while endpoint A waits with nothing to read; a
\* frame that is there is read at once, and a wait whose deadline has
\* passed ends first
Tick ==
    /\ now < MaxTime
    /\ Waiting("A") /\ wire["A"] = <<>> /\ now < tp["A"].deadline
    /\ now' = now + 1
    /\ tp' = [tp EXCEPT !["A"].waited = @ + 1]
    /\ UNCHANGED <<wire, uds>>
    /\ UNCHANGED EngineVars

\* _await_flow_control, _recv_frame: the loop ends at the deadline
DoTimeout(i) ==
    /\ Waiting(i) /\ now >= tp[i].deadline
    /\ TpApply(i, TimedOut(tp[i]), FALSE)

TpTimedNext ==
    \/ DoRequest("A", TpTimedPayloads)
    \/ Inject("A", TimedInputs, MaxInjected, 1)
    \/ DoAwaitFlowControl("A")
    \/ DoSendConsecutiveFrame("A")
    \/ DoRecvFirst("A")
    \/ DoRecvConsecutive("A")
    \/ DoTimeout("A")
    \/ Tick

TpTimedSpec == TpInit /\ [][TpTimedNext]_vars

(***************************************************************************)
(* CAN ids of an ECU (core/vehicle/topology.py, core/uds/client.py) and    *)
(* the UDS client's request (core/uds/client.py).  An ECU address is the   *)
(* number int(ecu, 16).                                                    *)
(***************************************************************************)
TesterSourceAddress29 == 241

Ids(tx, rx) == [ok |-> TRUE, tx |-> tx, rx |-> rx, err |-> "none"]

IdsError(err) == [ok |-> FALSE, tx |-> 0, rx |-> 0, err |-> err]

\* topology.ids_for_ecu
IdsForEcu(ecu_int, can_id_mode) ==
    IF ecu_int < 0 \/ ecu_int > 255 THEN IdsError("ecu out of range")
    ELSE IF can_id_mode = "11bit"
        THEN IF ecu_int > 23 THEN IdsError("ecu out of range")
             ELSE Ids(2016 + ecu_int, 2024 + ecu_int)
    ELSE IF can_id_mode = "29bit"
        THEN Ids(BitOr(BitOr(416940032, ShiftLeft(BitAnd(ecu_int, 255), 8)),
                       BitAnd(TesterSourceAddress29, 255)),
                 BitOr(BitOr(416940032, ShiftLeft(BitAnd(TesterSourceAddress29, 255), 8)),
                       BitAnd(ecu_int, 255)))
    ELSE IdsError("invalid can_id_mode")

\* an 11-bit limit of 0x1F in place of 0x17
EcuIdsLimit1F(ecu_int, can_id_mode) ==
    IF can_id_mode = "11bit" /\ 23 < ecu_int /\ ecu_int <= 31
        THEN Ids(2016 + ecu_int, 2024 + ecu_int)
    ELSE IdsForEcu(ecu_int, can_id_mode)

\* UdsClient._ecu_ids
EcuIds(ecu_int, can_id_mode) ==
    LET tester_sa == 241
    IN  IF ecu_int < 0 \/ ecu_int > 255 THEN IdsError("ecu out of range")
        ELSE IF can_id_mode = "11bit"
            THEN IF ecu_int > 23 THEN IdsError("ecu out of range")
                 ELSE Ids(2016 + ecu_int, 2024 + ecu_int)
        ELSE IF can_id_mode = "29bit"
            THEN Ids(BitOr(BitOr(416940032, ShiftLeft(BitAnd(ecu_int, 255), 8)),
                           BitAnd(tester_sa, 255)),
                     BitOr(BitOr(416940032, ShiftLeft(BitAnd(tester_sa, 255), 8)),
                           BitAnd(ecu_int, 255)))
        ELSE IdsError("invalid can_id_mode")

\* p2_ms and p2_star_ms of the client, a few milliseconds
P2 == 2

P2Star == 3

\* UdsClient._is_response_pending
IsResponsePending(payload, sid) ==
    Len(payload) >= 3 /\ payload[1] = 127 /\ payload[2] = sid /\ payload[3] = 120

\* the UdsError for an IsoTpError
UdsErrorOf(s) ==
    IF s.err_kind = "timeout" THEN "timeout waiting for response" ELSE s.err

\* the requests made: ReadDataByIdentifier F1 90
UdsRequests == { [sid |-> 34, data |-> <<241, 144>>] }

\* UdsClient._request_for_ecu, up to the first wait of isotp.request, for a
\* request of reqs
UdsSend(ecus, modes, reqs) ==
    /\ uds.pc = "idle" /\ tp["A"].pc = "idle"
    /\ \E ecu \in ecus, mode \in modes, req \in reqs :
          LET ids == EcuIds(ecu, mode)
              r   == StartRequest(TpInstance(ids.tx, ids.rx, 8, 10, P2),
                                  <<req.sid>> \o req.data, now)
              u   == [uds EXCEPT !.by = "client", !.ecu = ecu, !.mode = mode,
                                 !.sid = req.sid, !.ids = ids]
          IN  IF ~ids.ok
                  THEN /\ uds' = [u EXCEPT !.pc = "error", !.err = ids.err]
                       /\ UNCHANGED <<tp, wire>>
              ELSE /\ uds' = [u EXCEPT !.pc = "first"]
                   /\ tp' = [tp EXCEPT !["A"] = r.s]
                   /\ wire' = [wire EXCEPT !["B"] = @ \o r.out]
    /\ UNCHANGED now

UdsRequest(ecus, modes) ==
    /\ UdsSend(ecus, modes, UdsRequests)
    /\ UNCHANGED EngineVars

\* UdsClient._request_for_ecu and _wait_for_pending once isotp.request or
\* isotp.recv_response has returned or raised
UdsStep ==
    LET a == tp["A"]
        deadline  == IF uds.pc = "first" THEN now + P2Star ELSE uds.deadline
        remaining == deadline - now
    IN  /\ uds.pc \in {"first", "pending"} /\ a.pc \in {"done", "error"}
        /\ IF a.pc = "error"
               THEN /\ uds' = [uds EXCEPT !.pc = "error", !.err = UdsErrorOf(a)]
                    /\ UNCHANGED tp
           ELSE IF a.result = <<>>
               THEN /\ uds' = [uds EXCEPT !.pc = "error", !.err = "empty response"]
                    /\ UNCHANGED tp
           ELSE IF ~IsResponsePending(a.result, uds.sid)
               THEN /\ uds' = [uds EXCEPT !.pc = "done", !.result = a.result]
                    /\ UNCHANGED tp
           ELSE IF remaining <= 0
               THEN /\ uds' = [uds EXCEPT !.pc = "error", !.deadline = deadline,
                                          !.pendings = @ + 1,
                                          !.err = "timeout waiting for response"]
                    /\ UNCHANGED tp
           ELSE /\ uds' = [uds EXCEPT !.pc = "pending", !.deadline = deadline,
                                      !.pendings = @ + 1]
                /\ tp' = [tp EXCEPT !["A"] =
                            StartRecvResponse([a EXCEPT !.timeout_ms = remaining], now).s]
        /\ UNCHANGED <<wire, now>>
        /\ UNCHANGED EngineVars

\* responses: pending for the service, pending for another service, a
\* negative response, a positive one in a single frame, and a positive one
\* of 8 bytes in a first frame and a consecutive frame
UdsInputs ==
    { Frame(TesterRxId, <<3, 127, 34, 120>>), Frame(TesterRxId, <<3, 127, 16, 120>>),
      Frame(TesterRxId, <<3, 127, 34, 49>>), Frame(TesterRxId, <<4, 98, 241, 144, 1>>),
      Frame(TesterRxId, <<16, 8, 98, 241, 144, 1, 2, 3>>),
      Frame(TesterRxId, <<33, 4, 5>>) }

\* at most this many frames arrive during one UDS request
MaxResponses == 4

UdsNext ==
    \/ UdsRequest({0}, {"11bit"})
    \/ UdsStep
    \/ Inject("A", UdsInputs, MaxResponses, 1)
    \/ DoRecvFirst("A")
    \/ DoRecvConsecutive("A")
    \/ DoTimeout("A")
    \/ Tick

UdsSpec == TpInit /\ [][UdsNext]_vars

(***************************************************************************)
(* Id derivation for every address and mode, by the topology module and by *)
(* the client at the start of a request.                                   *)
(***************************************************************************)
\* int(ecu, 16) of the addresses asked for: one below 00, 00..FF, one above
EcuAddresses == -1..256

CanIdModes == {"11bit", "29bit", "fd"}

\* topology.ids_for_ecu(ecu, can_id_mode)
DoIdsForEcu ==
    /\ uds.pc = "idle"
    /\ \E ecu \in EcuAddresses, mode \in CanIdModes :
          LET ids == IdsForEcu(ecu, mode)
          IN  uds' = [uds EXCEPT !.by = "topology", !.ecu = ecu, !.mode = mode, !.ids = ids,
                                 !.pc = IF ids.ok THEN "done" ELSE "error",
                                 !.err = ids.err]
    /\ UNCHANGED <<tp, wire, now>>
    /\ UNCHANGED EngineVars

IdNext ==
    \/ DoIdsForEcu
    \/ UdsRequest(EcuAddresses, CanIdModes)

IdSpec == TpInit /\ [][IdNext]_vars

(***************************************************************************)
(* Properties.  They read the run the last operation took: last.steps is   *)
(* the sequence of steps of the handler (read, backup, snapshot, write,    *)
(* password, seed, key), in the order the code takes them.                 *)
(***************************************************************************)
EngineWrites == {"write_setting", "write_field", "adapt_write_raw", "coding_write_raw"}

HasStep(kinds) == \E i \in 1..Len(last.steps) : last.steps[i].t \in kinds

\* the record file the backup step at place j of the last run left behind
\* holds what the write at place j + 1 replaces: the ECU, the DID, the bytes
\* the read at place j - 1 returned and the payload.  A hex text is compared
\* as the bytes it denotes (_parse_hex: an absent text denotes no bytes).
RecordOfWrite(j) ==
    LET rd == last.steps[j - 1]
        bk == last.steps[j]
        wr == last.steps[j + 1]
    IN  /\ bk.t = "backup" /\ rd.t = "read" /\ rd.resp.k = "ok"
        /\ rd.did = wr.did /\ bk.did = wr.did
        /\ bk.id \in DOMAIN files
        /\ files[bk.id].backup_id = bk.id
        /\ files[bk.id].kind \in {"did_write", ""}
        /\ files[bk.id].did = Format04X(wr.did)
        /\ files[bk.id].ecu = NormalizeEcu(last.ecu).ecu
        /\ ParseHex(files[bk.id].old_hex).bytes = rd.data
        /\ ParseHex(files[bk.id].new_hex).bytes = wr.data

RiskOf(settings, key) ==
    LET hits == { i \in 1..Len(settings) : settings[i].key = key }
    IN  settings[CHOOSE i \in hits : TRUE].risk

\* the last operation was this dataset write, on ECU 09 and a key of the dataset
DatasetWrite(op, settings) ==
    /\ last.op = op /\ last.via = "engine"
    /\ last.ecu = Ecu09
    /\ \E i \in 1..Len(settings) : settings[i].key = last.key

\* C2: adaptations write_setting is rejected when mode is safe and the
\* setting's risk is not safe, when mode is advanced and the risk is unsafe,
\* and when mode is none of safe/advanced/unsafe; a rejected call issues no
\* UDS read or write.  safe/safe, advanced/{safe, risky} and unsafe/any pass
\* the gate: the engine goes on to read the DID.
C2_AdaptationModeGate ==
    DatasetWrite("write_setting", AdaptProfile.settings) =>
        LET risk     == RiskOf(AdaptProfile.settings, last.key)
            rejected == \/ last.mode = "safe" /\ risk # "safe"
                        \/ last.mode = "advanced" /\ risk = "unsafe"
                        \/ last.mode \notin {"safe", "advanced", "unsafe"}
        IN  IF rejected
                THEN /\ last.res \in {"not allowed in safe mode", "not allowed in advanced mode",
                                      "invalid mode"}
                     /\ last.steps = <<>>
                     /\ last.bid = None
            ELSE /\ last.steps # <<>>
                 /\ last.steps[1].t = "read"
                 /\ last.res \notin {"not allowed in safe mode", "not allowed in advanced mode",
                                     "invalid mode"}

\* a risky setting was refused in safe mode, with no step taken
C2_Witness ==
    /\ DatasetWrite("write_setting", AdaptProfile.settings)
    /\ last.mode = "safe" /\ last.key = "limit"
    /\ last.res = "not allowed in safe mode" /\ last.steps = <<>>

PasswordErrors ==
    {"unsafe password is required", "unsafe password is not configured",
     "invalid unsafe password"}

\* C3: in each of the four service writes called in unsafe mode, the
\* password supplied is verified, successfully, before any SecurityAccess
\* exchange, DID read, backup creation or DID write; with an absent or wrong
\* password the operation fails and none of those steps has happened.
C3_PasswordBeforeAnyStep ==
    (last.via = "service" /\ last.mode = "unsafe") =>
        /\ \A i \in 1..Len(last.steps) :
              last.steps[i].t \in {"seed", "key", "read", "backup", "snapshot", "write"}
                  => /\ \E j \in 1..(i - 1) : last.steps[j].t = "password"
                     /\ last.pwok
        /\ ~last.pwok => /\ last.res \in PasswordErrors
                         /\ last.steps = <<>>
                         /\ last.bid = None

\* an unsafe long-coding field write through the service that verified the
\* password, unlocked the ECU and then wrote
C3_Witness ==
    /\ last.via = "service" /\ last.op = "write_field" /\ last.mode = "unsafe"
    /\ last.pwok /\ Len(last.steps) >= 6
    /\ last.steps[1].t = "password" /\ last.steps[2].t = "seed"
    /\ last.steps[6].t = "write"

\* C4: long-coding write_field in mode safe is rejected whatever the field's
\* risk, with no DID read, no backup and no write; in mode advanced it is
\* rejected for a field of risk unsafe; only advanced (on safe or risky
\* fields) and unsafe reach the bus.
C4_CodingModeGate ==
    DatasetWrite("write_field", CodingProfile.fields) =>
        LET risk     == RiskOf(CodingProfile.fields, last.key)
            rejected == \/ last.mode = "safe"
                        \/ last.mode = "advanced" /\ risk = "unsafe"
            reaches  == \/ last.mode = "advanced" /\ risk \in {"safe", "risky"}
                        \/ last.mode = "unsafe"
        IN  /\ rejected => /\ last.res \in {"safe mode is read-only", "not allowed in advanced mode"}
                           /\ last.steps = <<>>
                           /\ last.bid = None
            /\ last.steps # <<>> <=> reaches

\* a field of risk safe was refused in safe mode, with no step taken
C4_Witness ==
    /\ DatasetWrite("write_field", CodingProfile.fields)
    /\ last.mode = "safe" /\ last.key = "drl"
    /\ last.res = "safe mode is read-only" /\ last.steps = <<>>

\* C5: for any sequence of backup creations on one backup root (write and
\* snapshot backups, whether or not the ECU write that follows succeeds),
\* each backup_id issued is the 6-digit decimal one greater than the one
\* issued before, starting at 000001: no id is issued twice and no record
\* file <backup_id>.json is overwritten.
C5_SequentialIds ==
    /\ \A i \in 1..Len(issued) : issued[i].id = Format06d(i)
    /\ Cardinality(DOMAIN files) = Len(issued)

Reverts == {"adapt_revert", "coding_revert"}

\* the revert that ran last was run by the engine whose write made the backup
OwnBackup ==
    \/ last.op = "adapt_revert" /\ last.tgt.op \in {"write_setting", "adapt_write_raw"}
    \/ last.op = "coding_revert" /\ last.tgt.op \in {"write_field", "coding_write_raw"}

\* the ECU stored every payload the last run wrote
EcuStoredAll ==
    \A i \in 1..Len(last.steps) :
        last.steps[i].t = "write" =>
            last.steps[i].resp.k = "pos" /\ last.steps[i].stored = last.steps[i].data

\* C6: for every engine write W that produced backup b on an ECU that
\* stores what is written, with no other write to that DID after W,
\* revert(b) leaves the DID bytes equal to the bytes read before W and
\* returns them as restored_hex, whatever those bytes were, empty included.
C6_RevertRestores ==
    (last.op \in Reverts /\ last.tgt.known /\ last.tgt.isfresh /\ OwnBackup /\ EcuStoredAll) =>
        /\ last.res = "ok"
        /\ mem[last.tgt.did] = last.tgt.pre
        /\ Len(last.steps) = 2
        /\ last.steps[2].t = "read" /\ last.steps[2].data = last.tgt.pre

\* the part of C6 that holds: the same, for a backup whose record carries
\* both hex texts (neither the bytes read before W nor its payload is empty)
C6_RevertRestoresNonEmpty ==
    (/\ last.op \in Reverts /\ last.tgt.known /\ last.tgt.isfresh /\ OwnBackup /\ EcuStoredAll
     /\ last.tgt.pre # <<>>
     /\ Truthy(files[Format06d(DigitsValue(last.value))].new_hex)) =>
        /\ last.res = "ok"
        /\ mem[last.tgt.did] = last.tgt.pre
        /\ Len(last.steps) = 2
        /\ last.steps[2].t = "read" /\ last.steps[2].data = last.tgt.pre

\* whether a revert names a record file that exists, and that file
NamedFound ==
    IsDigitText(last.value) /\ Format06d(DigitsValue(last.value)) \in DOMAIN files

NamedRecord == files[Format06d(DigitsValue(last.value))]

\* a record of a write: kind did_write, or a record of the adaptations store
\* (which writes no kind and no snapshots) with its two hex texts
IsWriteRecord(rec) ==
    \/ rec.kind = "did_write"
    \/ rec.kind = "" /\ rec.old_hex # None /\ rec.new_hex # None

\* C7: revert of a backup whose kind is did_snapshot, or of an unknown or
\* invalid backup id, fails with an error and issues no
\* WriteDataByIdentifier; only a record of a write leads to a write, and
\* what is written is its old_hex, to its DID.  Both reverts.
C7_RevertRefusals ==
    last.op \in Reverts =>
        /\ (~NamedFound \/ NamedRecord.kind = "did_snapshot") =>
              /\ last.res \in {"backup_id is required", "invalid backup_id", "backup not found",
                               "invalid backup record", "backup is not a write backup"}
              /\ last.steps = <<>>
        /\ \A i \in 1..Len(last.steps) :
              last.steps[i].t = "write" =>
                  /\ i = 1
                  /\ NamedFound
                  /\ IsWriteRecord(NamedRecord)
                  /\ NamedRecord.old_hex # None
                  /\ last.steps[i].data = ParseHex(NamedRecord.old_hex).bytes
                  /\ Format04X(last.steps[i].did) = NamedRecord.did

\* the long-coding revert refused a snapshot backup, with no step taken
C7_Witness ==
    /\ last.op = "coding_revert"
    /\ NamedFound /\ NamedRecord.kind = "did_snapshot"
    /\ last.res = "backup is not a write backup" /\ last.steps = <<>>

\* bit b (0 the lowest) of byte n
Bit(n, b) == (n \div Pow2(b)) % 2

\* image sent differs from image pre only within the bits of field f, and
\* there it holds value v
OnlyFieldChanged(pre, sent, f, v) ==
    /\ Len(sent) = Len(pre)
    /\ \A k \in 1..Len(pre), b \in 0..7 :
          (k # f.byte + 1 \/ b < f.bit \/ b >= f.bit + f.length)
              => Bit(sent[k], b) = Bit(pre[k], b)
    /\ \A b \in 0..(f.length - 1) : Bit(sent[f.byte + 1], f.bit + b) = Bit(v, b)

\* C8: for every long-coding field with bit + len <= 8, every coding image
\* of the required length and every in-range value, the image sent in the
\* WriteDataByIdentifier differs from the image read before only within
\* bits [bit, bit + len) of the field's byte, those bits hold the encoded
\* value, and writing the same value once more sends the same image.
C8_OnlyFieldBits ==
    /\ (last.op = "write_field" /\ HasStep({"write"})) =>
          LET f    == CodingSpecForKey(last.key).spec
              v    == EncodeFieldValue(f, last.value).val
              pre  == last.steps[1].data
              sent == last.steps[3].data
          IN  /\ last.steps[1].t = "read" /\ last.steps[3].t = "write"
              /\ v \in 0..(Pow2(f.length) - 1)
              /\ OnlyFieldChanged(pre, sent, f, v)
              /\ SetBits(sent, f.byte, f.bit, f.length, v) = [err |-> "none", buf |-> sent]
    /\ Len(mem[CodingDid]) = CodingProfile.length =>
          \A i \in 1..Len(CodingProfile.fields) :
              LET f == CodingProfile.fields[i]
              IN  \A v \in 0..(Pow2(f.length) - 1) :
                      LET once == SetBits(mem[CodingDid], f.byte, f.bit, f.length, v)
                      IN  /\ once.err = "none"
                          /\ OnlyFieldChanged(mem[CodingDid], once.buf, f, v)
                          /\ SetBits(once.buf, f.byte, f.bit, f.length, v) = once

\* field gain (bits 4..7 of byte 1) was written as 7 into an image whose
\* other bits are not all zero
C8_Witness ==
    /\ last.op = "write_field" /\ last.key = "gain" /\ last.value = <<0, 7>>
    /\ Len(last.steps) >= 3 /\ last.steps[3].t = "write"
    /\ last.steps[1].data[2] % 16 # 0
    /\ last.steps[3].data # last.steps[1].data

\* C9: long-coding write_field fails, with no backup created and no write
\* issued, when the bytes read before the write do not have the coding
\* length; and it reports an error instead of a result when the readback
\* after the write does not have it.
C9_CodingLength ==
    last.op = "write_field" =>
        /\ (/\ last.steps # <<>> /\ last.steps[1].t = "read"
            /\ last.steps[1].resp.k = "ok"
            /\ Len(last.steps[1].data) # CodingProfile.length) =>
              /\ last.res = "unexpected coding length"
              /\ Len(last.steps) = 1
              /\ last.bid = None
        /\ (/\ Len(last.steps) >= 4 /\ last.steps[4].t = "read"
            /\ last.steps[4].resp.k = "ok"
            /\ Len(last.steps[4].data) # CodingProfile.length) =>
              /\ last.res = "unexpected coding length"
              /\ last.bid = None

\* a field write found one byte where the coding has two, and stopped
C9_Witness ==
    /\ last.op = "write_field" /\ Len(last.steps) = 1
    /\ last.steps[1].t = "read" /\ Len(last.steps[1].data) = 1
    /\ last.res = "unexpected coding length"

\* a field write whose readback was one byte long, and that reported it
C9_ReadbackWitness ==
    /\ last.op = "write_field" /\ Len(last.steps) = 4
    /\ last.steps[4].t = "read" /\ Len(last.steps[4].data) = 1
    /\ last.res = "unexpected coding length"

\* the DIDs the dataset of ECU 09 names
DatasetDids ==
    { AdaptProfile.settings[i].wdid : i \in 1..Len(AdaptProfile.settings) }
        \cup { AdaptProfile.settings[i].rdid : i \in 1..Len(AdaptProfile.settings) }
        \cup { CodingProfile.did }

C11_FailedWriteLeavesStore ==
    [][ (/\ last'.op \in EngineWrites /\ last'.via = "engine"
         /\ last'.res # "ok"
         /\ \A i \in 1..Len(last'.steps) : last'.steps[i].t # "write")
            => /\ files' = files
               /\ indexJsonl' = indexJsonl
               /\ indexTxt' = indexTxt
               /\ issued' = issued
               /\ \A i \in 1..Len(last'.steps) : last'.steps[i].t # "backup" ]_vars

\* a write stopped after its read (encoding or length error) while the root
\* already held a record of each store
C11_Witness ==
    /\ last.op \in EngineWrites /\ last.res # "ok"
    /\ Len(last.steps) = 1 /\ last.steps[1].t = "read" /\ last.steps[1].resp.k = "ok"
    /\ files # <<>> /\ indexJsonl # <<>> /\ indexTxt # <<>>

\* a dataset write stopped by the UDS error of its read, the link being down
C11_ReadErrorWitness ==
    /\ last.op \in {"write_setting", "write_field"} /\ last.res = "read failed"
    /\ Len(last.steps) = 1 /\ last.steps[1].resp.k = "err"
    /\ files = <<>>

\* the NRCs of the security-access family: 0x33, 0x35, 0x36, 0x37
SecurityFamily == {51, 53, 54, 55}

\* C12: when the ECU answers the WriteDataByIdentifier of an engine write
\* with a negative response, the write fails with an error that carries the
\* NRC, reported as security access required for NRC 0x33, 0x35, 0x36 and
\* 0x37 and as a plain write failure for every other NRC; the backup created
\* for the write stays in the store and no result with a backup_id is
\* returned.
C12_NegativeResponse ==
    /\ \A n \in 0..255 :
          WriteError([k |-> "neg", nrc |-> n])
              = IF n \in SecurityFamily THEN "security access required" ELSE "write failed"
    /\ (last.op \in EngineWrites /\ last.via = "engine") =>
          \A i \in 1..Len(last.steps) :
              (last.steps[i].t = "write" /\ last.steps[i].resp.k = "neg") =>
                  /\ last.res = IF last.steps[i].resp.nrc \in SecurityFamily
                                    THEN "security access required" ELSE "write failed"
                  /\ last.steps[i].nrc # None
                  /\ ParseInt16(last.steps[i].nrc).ok
                  /\ ParseInt16(last.steps[i].nrc).n = last.steps[i].resp.nrc
                  /\ i = Len(last.steps)
                  /\ i = 3 /\ RecordOfWrite(2)
                  /\ last.steps[2].id \in DOMAIN files
                  /\ mem[last.steps[i].did] = last.steps[1].data
                  /\ last.bid = None

\* a long-coding field write refused with securityAccessDenied (0x33), its
\* backup on disk
C12_Witness ==
    /\ last.op = "write_field" /\ Len(last.steps) = 3
    /\ last.steps[3].t = "write" /\ last.steps[3].resp = [k |-> "neg", nrc |-> 51]
    /\ last.res = "security access required"
    /\ last.steps[2].id \in DOMAIN files

\* an adaptation write refused with requestOutOfRange (0x31)
C12_PlainWitness ==
    /\ last.op = "write_setting" /\ Len(last.steps) = 3
    /\ last.steps[3].resp = [k |-> "neg", nrc |-> 49]
    /\ last.res = "write failed" /\ last.steps[3].nrc = <<3, 1>>

\* the frames of kind k ("tx" or "rx") in the log of endpoint i
Logged(i, k) == SelectSeq(tp[i].log, LAMBDA e : e.k = k)

\* the consecutive frames endpoint i sent, in order
SentConsecutive(i) == SelectSeq(Logged(i, "tx"), LAMBDA e : ShiftRight(e.data[1], 4) = 2)

\* endpoint A is in request(P) with a payload the protocol can carry
Carrying == tp["A"].op = "request" /\ Len(tp["A"].payload) <= 4095

\* C13: every payload of 0..0x0FFF bytes that request() sends is what
\* recv_response() on the other side returns, and the exchange does not stall
\* or fail before that; every frame either side transmits is 8 bytes long;
\* the k-th consecutive frame carries sequence number k mod 16.
C13_RoundTrip ==
    /\ \A i \in Endpoints : \A k \in 1..Len(tp[i].log) :
          tp[i].log[k].k = "tx" => Len(tp[i].log[k].data) = 8
    /\ LET sent == SentConsecutive("A")
       IN  \A k \in 1..Len(sent) : sent[k].data[1] = 32 + (k % 16)
    /\ tp["B"].pc = "done" => tp["B"].result = tp["A"].payload
    /\ Carrying => /\ tp["A"].pc # "error" /\ tp["B"].pc # "error"
                   /\ tp["B"].pc # "done" => ENABLED TpNext

\* a 4095-byte payload came through: 585 consecutive frames, the sequence
\* number wrapped 36 times
C13_Witness ==
    /\ tp["B"].pc = "done" /\ Len(tp["B"].result) = 4095
    /\ tp["B"].result = tp["A"].payload
    /\ Len(SentConsecutive("A")) = 585

\* the empty payload came through
C13_EmptyWitness ==
    /\ tp["A"].op = "request" /\ tp["A"].payload = <<>>
    /\ tp["B"].pc = "done" /\ tp["B"].result = <<>>

\* frame e is flow control with status fs that _await_flow_control acts on
IsFlowControl(e, fs) ==
    /\ e.id = TesterRxId /\ Len(e.data) >= 3
    /\ ShiftRight(e.data[1], 4) = 3 /\ BitAnd(e.data[1], 15) = fs

\* the consecutive frames the sender may still send after the log entries
\* log[1..k]: 0 none, -1 any number, -2 when it sent one it was not allowed
RECURSIVE Credit(_, _)
Credit(log, k) ==
    IF k = 0 THEN 0
    ELSE LET before == Credit(log, k - 1)
             e == log[k]
         IN  IF before = -2 THEN -2
             ELSE IF e.k = "rx"
                 THEN IF IsFlowControl(e, 0) THEN (IF e.data[2] = 0 THEN -1 ELSE e.data[2])
                      ELSE before
             ELSE IF ShiftRight(e.data[1], 4) = 2
                 THEN IF before = 0 THEN -2
                      ELSE IF before = -1 THEN -1 ELSE before - 1
             ELSE 0

\* the payload bytes of the request that are sent
SentBytes(i) == IF tp[i].log = <<>> THEN 0 ELSE Min(6 + tp[i].offset, Len(tp[i].payload))

\* C14: in a multi-frame send no consecutive frame goes out unless a
\* flow-control frame with FS=continue on the rx id was received after the
\* first frame, and no more than block_size (>0) of them go out per
\* FS=continue; a frame with FS=wait, a frame on another id or a frame that
\* is not flow control leaves the sender waiting; FS=overflow ends the send
\* with a protocol error and nothing is sent after it.
C14_FlowControlObeyed ==
    LET s   == tp["A"]
        log == s.log
        n   == Len(log)
    IN  /\ Credit(log, n) # -2
        /\ (s.pc = "send_cf") => Credit(log, n) # 0
        /\ (n > 0 /\ log[n].k = "rx" /\ SentBytes("A") < Len(s.payload)) =>
              /\ IsFlowControl(log[n], 0) => s.pc = "send_cf"
              /\ IsFlowControl(log[n], 2) =>
                    s.pc = "error" /\ s.err_kind = "protocol"
                        /\ s.err = "flow control overflow"
              /\ (IsFlowControl(log[n], 1) \/ log[n].id # TesterRxId
                    \/ log[n].data = <<>> \/ ShiftRight(log[n].data[1], 4) # 3) =>
                    s.pc = "await_fc"
        /\ \A k \in 1..n : (log[k].k = "rx" /\ IsFlowControl(log[k], 2)) => k = n

\* 27 bytes were sent in blocks of one: a wait, then three FS=continue
C14_Witness ==
    /\ Len(tp["A"].payload) = 27 /\ SentBytes("A") = 27
    /\ Len(SentConsecutive("A")) = 3
    /\ \E k \in 1..Len(tp["A"].log) : IsFlowControl(tp["A"].log[k], 1)
    /\ Len(SelectSeq(tp["A"].log, LAMBDA e : e.k = "rx" /\ IsFlowControl(e, 0)
                                                /\ e.data[2] = 1)) = 3

\* an overflow frame ended a send after its first block
C14_OverflowWitness ==
    /\ tp["A"].pc = "error" /\ tp["A"].err = "flow control overflow"
    /\ Len(SentConsecutive("A")) = 2

\* frame type and 12-bit length field of frame data
FrameType(data) == ShiftRight(data[1], 4)

LengthField(data) == 256 * BitAnd(data[1], 15) + data[2]

\* C15: a payload of L <= 7 bytes is sent as exactly one single frame, and
\* only such a payload is; one of 8..4095 bytes starts with a first frame
\* whose 12-bit length field is L; one of more than 4095 bytes fails with a
\* protocol error and nothing is sent.  The receiver rejects, as protocol
\* errors, a first frame announcing 7 bytes or fewer and a single frame
\* whose length nibble is above 7.
C15_LengthBoundaries ==
    LET a    == tp["A"]
        b    == tp["B"]
        L    == Len(a.payload)
        sent == Logged("A", "tx")
        got  == Logged("B", "rx")
    IN  /\ a.op = "request" =>
              /\ L <= 7 => /\ Len(sent) = 1 /\ FrameType(sent[1].data) = 0
                           /\ BitAnd(sent[1].data[1], 15) = L
                           /\ Slice(sent[1].data, 1, 1 + L) = a.payload
              /\ (8 <= L /\ L <= 4095) =>
                           /\ Len(sent) >= 1 /\ FrameType(sent[1].data) = 1
                           /\ LengthField(sent[1].data) = L
                           /\ \A k \in 1..Len(sent) : FrameType(sent[k].data) # 0
              /\ L > 4095 => /\ a.pc = "error" /\ a.err_kind = "protocol"
                             /\ sent = <<>>
                             /\ \A k \in 1..Len(got) : got[k] \in
                                    { [k |-> "rx", id |-> f.id, data |-> f.data] :
                                        f \in FirstFrameInputs }
        /\ \A k \in 1..Len(got) :
              LET d == got[k].data
              IN  (Len(d) >= 2 /\ got[k].id = b.rx_id
                    /\ \/ FrameType(d) = 1 /\ LengthField(d) <= 7
                       \/ FrameType(d) = 0 /\ BitAnd(d[1], 15) > 7) =>
                      /\ b.pc = "error" /\ b.err_kind = "protocol" /\ b.result = None
                      /\ Logged("B", "tx") = <<>>

\* 4096 bytes were refused by the sender, and the receiver refused a first
\* frame announcing 7 bytes
C15_Witness ==
    /\ tp["A"].op = "request" /\ Len(tp["A"].payload) = 4096 /\ tp["A"].pc = "error"
    /\ tp["B"].pc = "error" /\ tp["B"].err = "invalid first frame length"
    /\ LengthField(Logged("B", "rx")[1].data) = 7

\* the receiver refused a single frame with length nibble 8
C15_NibbleWitness ==
    /\ tp["B"].pc = "error" /\ tp["B"].err = "single frame length mismatch"
    /\ BitAnd(Logged("B", "rx")[1].data[1], 15) = 8

\* 7 bytes went as a single frame and 4095 as a first frame; the receiver
\* took the single frame with nibble 7 and the first frame announcing 8
C15_AcceptWitness ==
    \/ /\ Len(tp["A"].payload) = 7 /\ tp["B"].pc = "done" /\ tp["B"].result = tp["A"].payload
    \/ /\ Len(tp["A"].payload) = 4095 /\ tp["B"].pc = "recv_cf" /\ tp["B"].total_len = 4095

\* the frames on its rx id that endpoint i received, in order
ReceivedOnRxId(i) == SelectSeq(tp[i].log, LAMBDA e : e.k = "rx" /\ e.id = tp[i].rx_id)

\* the k-th frame after the first frame is the consecutive frame due then
DueConsecutive(e, k) ==
    /\ e.data # <<>> /\ FrameType(e.data) = 2
    /\ BitAnd(e.data[1], 15) = k % 16

\* the place of the first frame in the log of endpoint i, 0 when none came
FirstFramePlace(i) ==
    LET at == { k \in 1..Len(tp[i].log) :
                  /\ tp[i].log[k].k = "rx" /\ tp[i].log[k].id = tp[i].rx_id
                  /\ Len(tp[i].log[k].data) >= 2 /\ FrameType(tp[i].log[k].data) = 1 }
    IN  IF at = {} THEN 0 ELSE CHOOSE k \in at : \A j \in at : k <= j

\* C16: on a first frame the receiver sends one flow-control frame with
\* FS=0, its block_size and its ST_min before it takes any consecutive
\* frame; after that a frame on the rx id that is not the consecutive frame
\* with the sequence number due (1, 2, ..., 15, 0, ...) ends the call with a
\* protocol error, no payload is returned and no further frame is taken;
\* frames with the numbers due are taken until the message is complete.
C16_Reassembly ==
    LET b   == tp["B"]
        log == b.log
        got == ReceivedOnRxId("B")
        ff  == FirstFramePlace("B")
        bad == { k \in 2..Len(got) : ~DueConsecutive(got[k], k - 1) }
    IN  (ff # 0 /\ got[1] = log[ff]) =>
            /\ Len(log) > ff /\ log[ff + 1].k = "tx"
            /\ log[ff + 1].id = b.tx_id
            /\ log[ff + 1].data = <<48, b.block_size, EncodeStMin(b.st_min_ms), 0, 0, 0, 0, 0>>
            /\ bad # {} => /\ bad = {Len(got)}
                           /\ b.pc = "error" /\ b.err_kind = "protocol"
                           /\ b.result = None
                           /\ log[Len(log)] = got[Len(got)]
            /\ bad = {} => /\ b.pc \in {"recv_cf", "done"}
                           /\ b.pc = "done" <=> 6 + 7 * (Len(got) - 1) >= b.total_len
                           /\ b.pc = "done" => Len(b.result) = b.total_len

\* after consecutive frames 1..15 the frame numbered 1 came where 0 was due
C16_Witness ==
    /\ tp["B"].pc = "error" /\ tp["B"].err = "sequence number mismatch"
    /\ Len(ReceivedOnRxId("B")) = 17
    /\ BitAnd(ReceivedOnRxId("B")[17].data[1], 15) = 1

\* a frame that is not a consecutive frame came during reassembly
C16_OtherFrameWitness ==
    /\ tp["B"].pc = "error" /\ tp["B"].err = "unexpected frame while receiving"
    /\ Len(ReceivedOnRxId("B")) = 3

\* 125 bytes were reassembled from 17 consecutive frames, with a frame for
\* another node in between
C16_CompleteWitness ==
    /\ tp["B"].pc = "done" /\ Len(tp["B"].result) = 125
    /\ ArrivedForeign("B") = 1

\* C17: a request with timeout T waits no longer than T in all, over its
\* waits for flow control and for every frame of the response, and once T
\* has been waited it has ended in a timeout error.
C17_SingleDeadline ==
    LET a == tp["A"]
    IN  a.op = "request" =>
            /\ a.waited <= a.timeout_ms
            /\ (a.waited >= a.timeout_ms /\ ~Waiting("A")) =>
                  a.pc = "error" /\ a.err_kind = "timeout"

\* what the code keeps: no single wait lasts longer than T, and a wait that
\* reaches T ends in a timeout error
C17_DeadlinePerWait ==
    LET a == tp["A"]
    IN  /\ Waiting("A") => a.deadline - now <= a.timeout_ms /\ now <= a.deadline
        /\ (a.pc = "error" /\ a.err_kind = "timeout") => now = a.deadline

\* a request returned its response after waiting longer than T in all
C17_LateWitness ==
    /\ tp["A"].pc = "done" /\ tp["A"].waited > tp["A"].timeout_ms
    /\ Len(tp["A"].result) = 13

\* C18: a request for service sid does not return 7F sid 78; after one or
\* more such responses the final response that arrives within P2* of the
\* first of them is returned, and when P2* has passed without one the
\* request has ended in a timeout error.
C18_PendingWithinP2Star ==
    /\ uds.pc = "done" => ~IsResponsePending(uds.result, uds.sid)
    /\ uds.pendings >= 1 =>
          /\ uds.pc = "done" => now < uds.deadline
          /\ now > uds.deadline =>
                uds.pc = "error" /\ uds.err = "timeout waiting for response"

\* what the code keeps: 7F sid 78 is never returned, and a final response
\* in a single frame is returned only when it came before P2* had passed
C18_NeverPendingReturned ==
    /\ uds.pc = "done" =>
          /\ ~IsResponsePending(uds.result, uds.sid)
          /\ uds.result = tp["A"].result
          /\ (uds.pendings >= 1 /\ Len(uds.result) <= 7) => now < uds.deadline
    /\ (uds.pc = "pending" /\ tp["A"].pc = "recv_first") =>
          tp["A"].deadline = uds.deadline

\* two pending responses, then the final response in time
C18_FinalWitness ==
    /\ uds.pc = "done" /\ uds.pendings = 2
    /\ uds.result = <<98, 241, 144, 1>> /\ now < uds.deadline

\* a final response returned after P2* had passed
C18_LateWitness ==
    /\ uds.pc = "done" /\ uds.pendings >= 1 /\ now > uds.deadline

\* P2* passed with pending responses only
C18_TimeoutWitness ==
    /\ uds.pc = "error" /\ uds.err = "timeout waiting for response"
    /\ uds.pendings >= 1 /\ now = uds.deadline

\* ids were derived for an address and a mode
Derived == uds.by # "none"

\* the addresses the derivation is to accept in a mode
Accepted(ecu, mode) ==
    \/ mode = "11bit" /\ 0 <= ecu /\ ecu <= 23
    \/ mode = "29bit" /\ 0 <= ecu /\ ecu <= 255

\* C19: for every ECU address and mode that id derivation accepts, the tx id
\* differs from the rx id.
C19_TxDiffersFromRx ==
    (Derived /\ uds.ids.ok) => uds.ids.tx # uds.ids.rx

\* what the code keeps: the ids differ for every accepted address but the
\* tester's own, F1 in 29-bit mode
C19_DistinctButTester ==
    (Derived /\ uds.ids.ok) =>
        (uds.ids.tx = uds.ids.rx <=> (uds.mode = "29bit" /\ uds.ecu = 241))

\* the client sent a request to ECU F1 in 29-bit mode on the id it listens on
C19_SameIdWitness ==
    /\ uds.by = "client" /\ uds.ecu = 241 /\ uds.mode = "29bit" /\ uds.pc = "first"
    /\ tp["A"].tx_id = tp["A"].rx_id /\ Len(wire["B"]) = 1

\* C20: in 11-bit mode an address above 0x17 is refused by the topology
\* module and by the client, by the client before any frame is sent; for
\* every accepted address e the ids are 0x7E0+e and 0x7E8+e in 11-bit mode
\* and 0x18DA0000|(e<<8)|0xF1 and 0x18DA0000|(0xF1<<8)|e in 29-bit mode,
\* the same from both; nothing else is accepted.
C20_IdDerivation ==
    Derived =>
        /\ uds.ids.ok <=> Accepted(uds.ecu, uds.mode)
        /\ uds.ids = IdsForEcu(uds.ecu, uds.mode)
        /\ uds.ids = EcuIds(uds.ecu, uds.mode)
        /\ ~uds.ids.ok => /\ uds.pc = "error" /\ uds.err = uds.ids.err
                          /\ wire = [i \in Endpoints |-> <<>>]
                          /\ tp["A"].log = <<>> /\ tp["A"].pc = "idle"
        /\ (uds.mode = "11bit" /\ uds.ecu > 23) => uds.err = "ecu out of range"
        /\ (uds.ids.ok /\ uds.mode = "11bit") =>
              uds.ids.tx = 2016 + uds.ecu /\ uds.ids.rx = 2024 + uds.ecu
        /\ (uds.ids.ok /\ uds.mode = "29bit") =>
              /\ uds.ids.tx = 416940032 + 256 * uds.ecu + 241
              /\ uds.ids.rx = 416940032 + 256 * 241 + uds.ecu
        /\ (uds.ids.ok /\ uds.by = "client") =>
              /\ tp["A"].tx_id = uds.ids.tx /\ tp["A"].rx_id = uds.ids.rx
              /\ Len(wire["B"]) = 1 /\ wire["B"][1].id = uds.ids.tx

\* the client refused a request to ECU 18 in 11-bit mode
C20_Witness ==
    /\ uds.by = "client" /\ uds.mode = "11bit" /\ uds.ecu = 24
    /\ uds.pc = "error" /\ wire["B"] = <<>>

\* the client sent a request to ECU 17 in 11-bit mode on 0x7F7, and one to
\* ECU 01 in 29-bit mode on 0x18DA01F1
C20_AcceptedWitness ==
    /\ uds.by = "client" /\ uds.pc = "first"
    /\ \/ uds.mode = "11bit" /\ uds.ecu = 23 /\ wire["B"][1].id = 2039
       \/ uds.mode = "29bit" /\ uds.ecu = 1 /\ wire["B"][1].id = 416940529

\* the steps that touch the ECU's data or the backup store
Guarded == {"read", "backup", "snapshot", "write"}

\* step j of the last operation is the exchange t with sub-function sub, and
\* the ECU answered it positively
Exchanged(j, t, sub) ==
    /\ last.steps[j].t = t /\ last.steps[j].did = sub
    /\ last.steps[j].resp.k = "ok"

\* C30: in a service write called with a security_level, every pre-write
\* read, backup creation and DID write comes after a seed request with
\* sub-function level and then a key send with sub-function level+1, both
\* answered positively; when the seed request fails, no key is available or
\* the key is rejected, the operation fails with no read, no backup and no
\* write.
C30_UnlockBeforeWrite ==
    (last.via = "service" /\ last.lvl # None) =>
        LET s   == last.steps
            lvl == last.lvl[1] % 256
            unlocked == \E j, k \in 1..Len(s) :
                            j < k /\ Exchanged(j, "seed", lvl)
                                  /\ Exchanged(k, "key", (lvl + 1) % 256)
        IN  /\ \A i \in 1..Len(s) : s[i].t \in Guarded =>
                  \E j, k \in 1..(i - 1) :
                      j < k /\ Exchanged(j, "seed", lvl)
                            /\ Exchanged(k, "key", (lvl + 1) % 256)
            /\ ~unlocked => /\ last.res # "ok" /\ last.bid = None
                            /\ \A i \in 1..Len(s) : s[i].t \notin Guarded
            /\ \A i \in 1..Len(s) : s[i].t = "key" =>
                  i > 1 /\ Exchanged(i - 1, "seed", lvl)

\* a write through the service that unlocked the ECU and then read, backed
\* up and wrote
C30_Witness ==
    /\ last.via = "service" /\ last.lvl # None /\ last.res = "ok"
    /\ \E j \in 1..Len(last.steps) : Exchanged(j, "key", 2)
    /\ \E i \in 1..Len(last.steps) : last.steps[i].t = "backup"
    /\ last.steps[Len(last.steps)].t \in {"write", "read"}

\* the ECU rejected the key and the write was given up
C30_RejectedWitness ==
    /\ last.via = "service" /\ last.lvl # None /\ last.res = "key rejected"
    /\ Len(last.steps) >= 2 /\ last.steps[Len(last.steps)].t = "key"

\* no key was supplied after a seed was obtained
C30_NoKeyWitness ==
    /\ last.via = "service" /\ last.lvl # None /\ last.res = "key is required"
    /\ last.steps[Len(last.steps)].t = "seed"

(***************************************************************************)
(* The DTC codec.  In DTC text the letters keep their case: 0..9 are the   *)
(* digits, 10..15 'A'..'F', 40 'P', 41 'U', and a lower-case letter is its *)
(* upper-case code plus 50.                                                *)
(***************************************************************************)
\* _DTC_PREFIX: P, C, B, U for 0..3
DtcPrefix == <<40, 12, 11, 41>>

\* str.upper() on one character
Upper(c) == IF c \in 60..65 \/ c \in {90, 91} THEN c - 50 ELSE c

\* int(c, 16) of one character: -1 when it raises ValueError
HexDigitValue(c) == IF c \in 0..15 THEN c ELSE IF c \in 60..65 THEN c - 50 ELSE -1

\* _DTC_PREFIX_REV[prefix]
PrefixRev(c) == CHOOSE k \in 0..3 : DtcPrefix[k + 1] = c

encode_dtc(code) ==
    IF Len(code) # 5 THEN [ok |-> FALSE, value |-> 0, err |-> "invalid dtc format"]
    ELSE IF \A k \in 1..4 : DtcPrefix[k] # Upper(code[1])
        THEN [ok |-> FALSE, value |-> 0, err |-> "invalid dtc prefix"]
    ELSE IF \E k \in 2..5 : HexDigitValue(code[k]) = -1
        THEN [ok |-> FALSE, value |-> 0, err |-> "invalid dtc digits"]
    ELSE IF HexDigitValue(code[2]) > 3
        THEN [ok |-> FALSE, value |-> 0, err |-> "invalid dtc first digit"]
    ELSE [ok |-> TRUE, err |-> "none",
          value |-> BitOr(BitOr(ShiftLeft(PrefixRev(Upper(code[1])), 14),
                                ShiftLeft(HexDigitValue(code[2]), 12)),
                          BitOr(BitOr(ShiftLeft(HexDigitValue(code[3]), 8),
                                      ShiftLeft(HexDigitValue(code[4]), 4)),
                                HexDigitValue(code[5])))]

\* a decoder that takes four bits for the first digit
DecodeDtcStringWideFirst(value) ==
    <<DtcPrefix[BitAnd(ShiftRight(value, 14), 3) + 1]>>
        \o Digits(BitAnd(ShiftRight(value, 12), 15))
        \o HexDigits(BitAnd(ShiftRight(value, 8), 15))
        \o HexDigits(BitAnd(ShiftRight(value, 4), 15))
        \o HexDigits(BitAnd(value, 15))

\* _decode_dtc_string: f"{prefix}{first}{second:X}{third:X}{fourth:X}"
DecodeDtcString(value) ==
    <<DtcPrefix[BitAnd(ShiftRight(value, 14), 3) + 1]>>
        \o Digits(BitAnd(ShiftRight(value, 12), 3))
        \o HexDigits(BitAnd(ShiftRight(value, 8), 15))
        \o HexDigits(BitAnd(ShiftRight(value, 4), 15))
        \o HexDigits(BitAnd(value, 15))

decode_dtc(value) ==
    [value |-> BitAnd(value, 16777215), formatted |-> DecodeDtcString(value)]

\* f"{prefix}{first}{rest:03X}" on the low 16 bits
uds_dtc_to_sae(code24) ==
    LET code16 == BitAnd(code24, 65535)
    IN  <<DtcPrefix[BitAnd(ShiftRight(code16, 14), 3) + 1]>>
            \o Digits(BitAnd(ShiftRight(code16, 12), 3))
            \o PadLeft(HexDigits(BitAnd(code16, 4095)), 3)

\* the strings [PCBU][0-3][0-9A-F]{3}
SaeCodes ==
    { <<p, a, b, c, d>> : p \in {40, 12, 11, 41}, a \in 0..3,
                          b \in 0..15, c \in 0..15, d \in 0..15 }

\* other texts: lower case, a first digit above 3, a letter that is no
\* prefix, a character that is no hex digit, too short, too long
OtherCodes ==
    { <<90, 0, 60, 1, 15>>, <<62, 3, 65, 65, 65>>, <<91, 1, 2, 3, 4>>, <<40, 4, 0, 0, 0>>,
      <<13, 0, 0, 0, 0>>, <<40, 0, 0, 0, 41>>, <<40, 0, 0, 0>>, <<40, 0, 0, 0, 0, 0>>, <<>> }

\* every 16-bit value, and 24-bit values above them
DtcValues ==
    0..65535 \cup { 65536 * h + 4369 * l : h \in {1, 128, 255}, l \in 0..15 }

DoEncodeDtc ==
    /\ dtc.pc = "idle"
    /\ \E s \in SaeCodes \cup OtherCodes :
          LET e == encode_dtc(s)
          IN  dtc' = [pc |-> "encoded", text |-> s, value |-> e.value, ok |-> e.ok,
                      err |-> e.err,
                      back |-> IF e.ok THEN decode_dtc(e.value).formatted ELSE <<>>,
                      sae |-> IF e.ok THEN uds_dtc_to_sae(e.value) ELSE <<>>]
    /\ UNCHANGED <<StoreVars, LinkVars, LabVars, scan, ipc, dtcs>>

DoDecodeDtc ==
    /\ dtc.pc = "idle"
    /\ \E v \in DtcValues :
          LET d == decode_dtc(v)
              e == encode_dtc(d.formatted)
          IN  dtc' = [pc |-> "decoded", text |-> d.formatted, value |-> v, ok |-> e.ok,
                      err |-> e.err, back |-> e.value, sae |-> uds_dtc_to_sae(v)]
    /\ UNCHANGED <<StoreVars, LinkVars, LabVars, scan, ipc, dtcs>>

DtcNext ==
    \/ DoEncodeDtc
    \/ DoDecodeDtc

DtcSpec == TpInit /\ [][DtcNext]_vars

\* C28: every string [PCBU][0-3][0-9A-F]{3} is encoded and decodes to itself;
\* every value decodes to a string that encodes to the value's low 16 bits;
\* uds_dtc_to_sae gives the string decode_dtc gives.
C28_CodecRoundTrip ==
    /\ (dtc.pc = "encoded" /\ dtc.text \in SaeCodes) =>
          /\ dtc.ok /\ dtc.value \in 0..65535
          /\ dtc.back = dtc.text /\ dtc.sae = dtc.text
    /\ dtc.pc = "decoded" =>
          /\ dtc.ok /\ dtc.back = dtc.value % 65536
          /\ dtc.sae = dtc.text /\ dtc.text \in SaeCodes

\* U3FFF was encoded to 0xFFFF and decoded back
C28_Witness ==
    /\ dtc.pc = "encoded" /\ dtc.text = <<41, 3, 15, 15, 15>>
    /\ dtc.value = 65535 /\ dtc.back = dtc.text

\* 0x4A0B was decoded to C0A0B and encoded back
C28_DecodedWitness ==
    /\ dtc.pc = "decoded" /\ dtc.value = 18955
    /\ dtc.text = <<12, 0, 10, 0, 11>> /\ dtc.back = 18955

\* a value with bits above the low 16 decodes to the string of its low 16
C28_HighBitsWitness ==
    /\ dtc.pc = "decoded" /\ dtc.value = 65536 * 255 + 4369
    /\ dtc.text = <<40, 1, 1, 1, 1>> /\ dtc.back = 4369

\* a lower-case text is accepted and does not decode to itself
C28_LowerCaseWitness ==
    /\ dtc.pc = "encoded" /\ dtc.text = <<90, 0, 60, 1, 15>>
    /\ dtc.ok /\ dtc.back = <<40, 0, 10, 1, 15>>

(***************************************************************************)
(* read_dtcs and the freeze frames attached to its result.  An answer of   *)
(* the ECU to one UDS request is [k, b]: k = "timeout" when UdsClient      *)
(* raises UdsError, k = "resp" with the response bytes b otherwise.  A     *)
(* call's outcome carries exc, the class of the exception it raises        *)
(* ("none" when it returns).                                               *)
(***************************************************************************)
\* UdsClient.read_dtcs: the (code, status) pairs of the 59 02 response
RECURSIVE DtcTriples(_, _)
DtcTriples(b, offset) ==
    IF offset + 2 < Len(b)
        THEN <<[code24 |-> BitAnd(BitOr(ShiftLeft(b[offset + 1], 8), b[offset + 2]), 16777215),
                status_byte |-> BitAnd(b[offset + 3], 255)]>>
             \o DtcTriples(b, offset + 3)
    ELSE <<>>

UdsReadDtcs(ans) ==
    IF ans.k = "timeout" THEN [exc |-> "UdsError", dtcs |-> <<>>]
    ELSE IF ans.b[1] = 127
        THEN [exc |-> IF Len(ans.b) >= 3 THEN "UdsError" ELSE "IndexError", dtcs |-> <<>>]
    ELSE IF Len(ans.b) < 3 \/ ans.b[1] # 89 \/ ans.b[2] # 2
        THEN [exc |-> "UdsError", dtcs |-> <<>>]
    ELSE [exc |-> "none", dtcs |-> DtcTriples(ans.b, 3)]

NoFrame == [none |-> TRUE, record_id |-> 0, parameters |-> <<>>]

\* decode_dtcs: one item per DTC (code, raw, status_byte), without the text
\* looked up in the registry
DecodeDtcs(raw_dtcs) ==
    [k \in 1..Len(raw_dtcs) |->
        [code |-> uds_dtc_to_sae(raw_dtcs[k].code24), raw |-> raw_dtcs[k].code24,
         status_byte |-> raw_dtcs[k].status_byte, has_ff |-> FALSE, freeze_frame |-> NoFrame]]

\* the dict built from the 59 04 response: the record of a DTC, -1 when absent
RECURSIVE SnapshotRecordOf(_, _, _)
SnapshotRecordOf(b, offset, code) ==
    IF offset + 2 < Len(b)
        THEN LET later == SnapshotRecordOf(b, offset + 3, code)
             IN  IF later # -1 THEN later
                 ELSE IF decode_dtc(BitOr(ShiftLeft(b[offset + 1], 8), b[offset + 2])).formatted
                           = code
                     THEN BitAnd(b[offset + 3], 255)
                 ELSE -1
    ELSE -1

\* list_snapshot_identification: a timeout or a negative response is an empty
\* map, another malformed response raises
list_snapshot_identification(ans) ==
    IF ans.k = "timeout" THEN [exc |-> "none", b |-> <<>>]
    ELSE IF ans.b[1] = 127 THEN [exc |-> "none", b |-> <<>>]
    ELSE IF Len(ans.b) < 3 \/ ans.b[1] # 89 \/ ans.b[2] # 4
        THEN [exc |-> "FreezeFrameError", b |-> <<>>]
    ELSE [exc |-> "none", b |-> ans.b]

\* the DIDs with a specification: 0x1235, 0x1236 and 0x1234 are u16be,
\* 0xF190 and 0xF187 ascii, every other DID is bytes
DidKind(did) ==
    IF did \in {4661, 4662, 4660} THEN "u16be"
    ELSE IF did \in {61840, 61831} THEN "ascii"
    ELSE "bytes"

RECURSIVE RStripNul(_)
RStripNul(s) ==
    IF s # <<>> /\ s[Len(s)] = 0 THEN RStripNul(SubSeq(s, 1, Len(s) - 1)) ELSE s

\* decode_value: [exc, value]
decode_value(kind, data) ==
    IF kind = "ascii" THEN [exc |-> "none", value |-> [k |-> "ascii", n |-> 0, s |-> RStripNul(data)]]
    ELSE IF kind = "u16be"
        THEN IF Len(data) < 2 THEN [exc |-> "DidError", value |-> [k |-> "", n |-> 0, s |-> <<>>]]
             ELSE [exc |-> "none", value |-> [k |-> "int", n |-> 256 * data[1] + data[2], s |-> <<>>]]
    ELSE [exc |-> "none", value |-> [k |-> "hex", n |-> 0, s |-> data]]

\* a parameter decoder that lets DidError out
DecodeParamUncaught(did, raw) ==
    LET v == decode_value(DidKind(did % 65536), raw)
    IN  [exc |-> v.exc, did |-> Format04X(did), raw |-> raw, value |-> v.value]

\* _decode_param: a value that cannot be decoded is kept as raw hex
DecodeParam(did, raw) ==
    LET v == decode_value(DidKind(did % 65536), raw)
    IN  [exc |-> "none", did |-> Format04X(did), raw |-> raw,
         value |-> IF v.exc = "DidError" THEN [k |-> "hex", n |-> 0, s |-> raw] ELSE v.value]

\* the parameter loop of read_snapshot_record: [exc, params]
RECURSIVE SnapshotParams(_, _, _, _)
SnapshotParams(b, offset, count, acc) ==
    IF count = 0 THEN [exc |-> "none", params |-> acc]
    ELSE IF offset + 3 > Len(b) THEN [exc |-> "FreezeFrameError", params |-> <<>>]
    ELSE LET did    == BitOr(ShiftLeft(b[offset + 1], 8), b[offset + 2])
             length == BitAnd(b[offset + 3], 255)
         IN  IF offset + 3 + length > Len(b) THEN [exc |-> "FreezeFrameError", params |-> <<>>]
             ELSE LET p == DecodeParam(did, SubSeq(b, offset + 4, offset + 3 + length))
                  IN  IF p.exc # "none" THEN [exc |-> p.exc, params |-> <<>>]
                      ELSE SnapshotParams(b, offset + 3 + length, count - 1,
                                          Append(acc, [did |-> p.did, raw |-> p.raw,
                                                       value |-> p.value]))

\* read_snapshot_record: [exc, ff]; ff is NoFrame when it returns None
read_snapshot_record(ans, code, record_id) ==
    LET e == encode_dtc(code)
        hi == BitAnd(ShiftRight(e.value, 8), 255)
        lo == BitAnd(e.value, 255)
        b == ans.b
    IN  IF ~e.ok THEN [exc |-> "ValueError", ff |-> NoFrame]
        ELSE IF ans.k = "timeout" THEN [exc |-> "none", ff |-> NoFrame]
        ELSE IF b[1] = 127 THEN [exc |-> "none", ff |-> NoFrame]
        ELSE IF Len(b) < 6 \/ b[1] # 89 \/ b[2] # 5
            THEN [exc |-> "FreezeFrameError", ff |-> NoFrame]
        ELSE IF b[3] # hi \/ b[4] # lo THEN [exc |-> "FreezeFrameError", ff |-> NoFrame]
        ELSE IF b[5] # BitAnd(record_id, 255) THEN [exc |-> "FreezeFrameError", ff |-> NoFrame]
        ELSE LET ps == SnapshotParams(b, 6, BitAnd(b[6], 255), <<>>)
             IN  IF ps.exc # "none" THEN [exc |-> ps.exc, ff |-> NoFrame]
                 ELSE [exc |-> "none",
                       ff |-> [none |-> FALSE, record_id |-> BitAnd(record_id, 255),
                               parameters |-> ps.params]]

\* DiagnosticService._attach_freeze_frames: [exc, items].  ans04 answers the
\* identification request, ans05[k] the record request for item k.
RECURSIVE AttachFreezeFrames(_, _, _, _)
AttachFreezeFrames(items, ans04, ans05, k) ==
    IF k > Len(items) THEN [exc |-> "none", items |-> items]
    ELSE LET ident == list_snapshot_identification(ans04)
             map   == IF ident.exc # "none" THEN <<>> ELSE ident.b
             rec   == SnapshotRecordOf(map, 3, items[k].code)
             r     == read_snapshot_record(ans05[k], items[k].code, rec)
             frame == IF rec = -1 \/ r.exc = "FreezeFrameError" THEN NoFrame ELSE r.ff
         IN  IF rec # -1 /\ r.exc \notin {"none", "FreezeFrameError"}
                 THEN [exc |-> r.exc, items |-> <<>>]
             ELSE AttachFreezeFrames(
                      [items EXCEPT ![k] = [@ EXCEPT !.has_ff = TRUE, !.freeze_frame = frame]],
                      ans04, ans05, k + 1)

\* DiagnosticService.read_dtcs: [exc, items]
ServiceReadDtcs(ans02, with_freeze_frame, ans04, ans05) ==
    LET d == UdsReadDtcs(ans02)
    IN  IF d.exc # "none" THEN [exc |-> d.exc, items |-> <<>>]
        ELSE IF with_freeze_frame THEN AttachFreezeFrames(DecodeDtcs(d.dtcs), ans04, ans05, 1)
        ELSE [exc |-> "none", items |-> DecodeDtcs(d.dtcs)]

Resp(b) == [k |-> "resp", b |-> b]

Timeout == [k |-> "timeout", b |-> <<>>]

\* answers to 19 02 FF: P0123 and C0A0B stored, P0123 alone, no DTC, a
\* negative response, a response to another sub-function, no answer
Answers02 ==
    { Resp(<<89, 2, 255, 1, 35, 9, 74, 11, 4>>), Resp(<<89, 2, 255, 1, 35, 9>>),
      Resp(<<89, 2, 255>>), Resp(<<127, 25, 17>>), Resp(<<89, 4, 255>>), Timeout }

\* answers to 19 04 FF FF: records for both DTCs, for P0123 alone, for P0123
\* twice, for a DTC that is not stored, none, a cut triple, a negative
\* response, malformed responses, no answer
Answers04 ==
    { Resp(<<89, 4, 255, 1, 35, 1, 74, 11, 1>>), Resp(<<89, 4, 255, 1, 35, 1>>),
      Resp(<<89, 4, 255, 1, 35, 1, 1, 35, 2>>), Resp(<<89, 4, 255, 255, 255, 1>>),
      Resp(<<89, 4, 255>>), Resp(<<89, 4, 255, 1, 35, 1, 74, 11>>),
      Resp(<<127, 25, 17>>), Resp(<<89, 4>>), Resp(<<89, 2, 255, 1, 35, 1>>), Timeout }

\* answers to 19 05 <dtc> <record>: no answer, a negative response, a short
\* and a misdirected response, another DTC, another record id, a record with
\* no parameter, with a speed, with a speed of one byte, with an unknown DID,
\* with a VIN, with two parameters, with a cut parameter header, with cut data
Answers05(hi, lo) ==
    { Timeout, Resp(<<127, 25, 49>>), Resp(<<89, 5, hi, lo, 1>>), Resp(<<89, 4, hi, lo, 1, 0>>),
      Resp(<<89, 5, hi, (lo + 1) % 256, 1, 0>>), Resp(<<89, 5, hi, lo, 2, 0>>),
      Resp(<<89, 5, hi, lo, 1, 0>>), Resp(<<89, 5, hi, lo, 1, 1, 18, 53, 2, 0, 80>>),
      Resp(<<89, 5, hi, lo, 1, 1, 18, 53, 1, 80>>), Resp(<<89, 5, hi, lo, 1, 1, 171, 205, 1, 7>>),
      Resp(<<89, 5, hi, lo, 1, 1, 241, 144, 2, 10, 0>>),
      Resp(<<89, 5, hi, lo, 1, 2, 18, 53, 2, 0, 80, 18, 54, 2, 0, 90>>),
      Resp(<<89, 5, hi, lo, 1, 1, 18, 53>>), Resp(<<89, 5, hi, lo, 1, 1, 18, 53, 2, 0>>) }

\* read_dtcs called with and without freeze frames against the same answers
DoReadDtcs ==
    /\ dtcs.pc = "idle"
    /\ \E a02 \in Answers02, a04 \in Answers04,
          a1 \in Answers05(1, 35), a2 \in Answers05(74, 11) :
          dtcs' = [pc |-> "done", ans02 |-> a02, ans04 |-> a04, ans05 |-> <<a1, a2>>,
                   plain |-> ServiceReadDtcs(a02, FALSE, a04, <<a1, a2>>),
                   framed |-> ServiceReadDtcs(a02, TRUE, a04, <<a1, a2>>)]
    /\ UNCHANGED <<StoreVars, LinkVars, LabVars, scan, ipc, dtc>>

DtcsNext ==
    \/ DoReadDtcs

DtcsSpec == TpInit /\ [][DtcsNext]_vars

\* the response bytes a freeze frame of item k was read from are a 59 05
\* response for the item's DTC and the record the identification named
WellFormed05(k) ==
    LET b == dtcs.ans05[k].b
        v == dtcs.framed.items[k].raw % 65536
    IN  /\ dtcs.ans05[k].k = "resp" /\ Len(b) >= 6
        /\ b[1] = 89 /\ b[2] = 5 /\ b[3] = v \div 256 /\ b[4] = v % 256
        /\ b[5] = dtcs.framed.items[k].freeze_frame.record_id

\* C29: read_dtcs with freeze frames fails exactly when it fails without
\* them, and otherwise returns the same items, each with a freeze_frame that
\* is null unless a well-formed record for that DTC was read.
C29_FreezeFrameNeverFails ==
    dtcs.pc = "done" =>
        /\ dtcs.framed.exc = dtcs.plain.exc
        /\ Len(dtcs.framed.items) = Len(dtcs.plain.items)
        /\ \A k \in 1..Len(dtcs.plain.items) :
              LET f == dtcs.framed.items[k]
                  p == dtcs.plain.items[k]
              IN  /\ f.code = p.code /\ f.raw = p.raw /\ f.status_byte = p.status_byte
                  /\ f.has_ff /\ ~p.has_ff
                  /\ ~f.freeze_frame.none => WellFormed05(k)
                  /\ ~WellFormed05(k) => f.freeze_frame = NoFrame

\* two DTCs were read; the record of the first came with a parameter cut
\* short and is null, the record of the second was read with its speed
C29_Witness ==
    /\ dtcs.pc = "done" /\ dtcs.framed.exc = "none" /\ Len(dtcs.framed.items) = 2
    /\ dtcs.ans05[1] = Resp(<<89, 5, 1, 35, 1, 1, 18, 53, 2, 0>>)
    /\ dtcs.framed.items[1].freeze_frame = NoFrame
    /\ ~dtcs.framed.items[2].freeze_frame.none
    /\ dtcs.framed.items[2].freeze_frame.parameters
          = <<[did |-> <<1, 2, 3, 5>>, raw |-> <<0, 80>>,
               value |-> [k |-> "int", n |-> 80, s |-> <<>>]]>>

\* a speed of one byte is kept as raw hex in a record that is returned
C29_RawHexWitness ==
    /\ dtcs.pc = "done" /\ dtcs.framed.exc = "none" /\ Len(dtcs.framed.items) >= 1
    /\ ~dtcs.framed.items[1].freeze_frame.none
    /\ dtcs.framed.items[1].freeze_frame.parameters
          = <<[did |-> <<1, 2, 3, 5>>, raw |-> <<80>>,
               value |-> [k |-> "hex", n |-> 0, s |-> <<80>>]]>>

\* the identification request was answered with a malformed response and
\* every freeze_frame is null
C29_MalformedWitness ==
    /\ dtcs.pc = "done" /\ dtcs.ans04 = Resp(<<89, 4>>)
    /\ dtcs.framed.exc = "none" /\ Len(dtcs.framed.items) = 2
    /\ \A k \in 1..2 : dtcs.framed.items[k].freeze_frame = NoFrame

\* the identification named record 2 and the ECU answered with record 1
C29_RecordMismatchWitness ==
    /\ dtcs.pc = "done" /\ dtcs.ans04 = Resp(<<89, 4, 255, 1, 35, 1, 1, 35, 2>>)
    /\ dtcs.ans05[1] = Resp(<<89, 5, 1, 35, 1, 0>>)
    /\ dtcs.framed.exc = "none" /\ Len(dtcs.framed.items) >= 1
    /\ dtcs.framed.items[1].freeze_frame = NoFrame

(***************************************************************************)
(* Topology discovery.  The scan takes one step per frame received in the  *)
(* functional scan and one per candidate probed in the physical scan.  An  *)
(* ECU address is the text f"{ecu:02X}" the code uses as the key of nodes. *)
(***************************************************************************)
MaxFrames == 2

\* transport.recv() returned None
NoRx == Frame(-1, <<>>)

\* _mode_matches_id
ModeMatchesId(can_id, can_id_mode) ==
    IF can_id_mode = "11bit" THEN 0 <= can_id /\ can_id <= 2047
    ELSE IF can_id_mode = "29bit" THEN can_id > 2047
    ELSE FALSE

\* topology.infer_ecu_from_response_id: the ECU text, None when there is none
infer_ecu_from_response_id(can_id, can_id_mode) ==
    IF can_id_mode = "11bit"
        THEN IF 2024 <= can_id /\ can_id <= 2047 THEN Format02X(can_id - 2024) ELSE None
    ELSE IF BitAnd(can_id, 536870656) = 417001728 THEN Format02X(BitAnd(can_id, 255))
    ELSE None

\* _decode_isotp_single_frame: [none, payload]
DecodeIsotpSingleFrame(data) ==
    IF data = <<>> THEN [none |-> TRUE, payload |-> <<>>]
    ELSE IF ShiftRight(data[1], 4) # 0 THEN [none |-> TRUE, payload |-> <<>>]
    ELSE IF BitAnd(data[1], 15) > Len(data) - 1 THEN [none |-> TRUE, payload |-> <<>>]
    ELSE [none |-> FALSE, payload |-> Slice(data, 1, 1 + BitAnd(data[1], 15))]

\* the place of an ECU in nodes (a dict, in insertion order), 0 when absent
NodeIndex(nodes, ecu) ==
    IF \E k \in 1..Len(nodes) : nodes[k].ecu = ecu
        THEN CHOOSE k \in 1..Len(nodes) : nodes[k].ecu = ecu
    ELSE 0

\* an accumulator that takes the last answer for uds_confirmed
TouchOverwrite(nodes, ecu, ids, can_id_mode, note, uds_ok) ==
    LET k    == NodeIndex(nodes, ecu)
        base == IF k = 0
                    THEN Append(nodes, [ecu |-> ecu, tx_id |-> ids.tx, rx_id |-> ids.rx,
                                        can_id_mode |-> can_id_mode, uds_confirmed |-> FALSE,
                                        notes |-> {}])
                ELSE nodes
        j    == IF k = 0 THEN Len(base) ELSE k
    IN  [base EXCEPT ![j].notes = @ \cup {note}, ![j].uds_confirmed = uds_ok]

\* nodes.get(ecu), a new _NodeAcc when absent, then the note and the OR
Touch(nodes, ecu, ids, can_id_mode, note, uds_ok) ==
    LET k    == NodeIndex(nodes, ecu)
        base == IF k = 0
                    THEN Append(nodes, [ecu |-> ecu, tx_id |-> ids.tx, rx_id |-> ids.rx,
                                        can_id_mode |-> can_id_mode, uds_confirmed |-> FALSE,
                                        notes |-> {}])
                ELSE nodes
        j    == IF k = 0 THEN Len(base) ELSE k
    IN  [base EXCEPT ![j].notes = @ \cup {note}, ![j].uds_confirmed = @ \/ uds_ok]

\* the body of the receive loop of _functional_scan for one recv()
FunctionalFrame(nodes, rx, can_id_mode) ==
    IF rx = NoRx THEN nodes
    ELSE IF ~ModeMatchesId(rx.id, can_id_mode) THEN nodes
    ELSE LET ecu == infer_ecu_from_response_id(rx.id, can_id_mode)
             p   == DecodeIsotpSingleFrame(rx.data)
         IN  IF ecu = None THEN nodes
             ELSE Touch(nodes, ecu, IdsForEcu(HexValue(ecu), can_id_mode), can_id_mode,
                        "seen:functional", ~p.none /\ Slice(p.payload, 0, 2) = <<80, 1>>)

\* the response the retries of one candidate end with: [got, b]
RECURSIVE FirstResponse(_, _)
FirstResponse(attempts, left) ==
    IF left = 0 \/ attempts = <<>> THEN [got |-> FALSE, b |-> <<>>]
    ELSE IF Head(attempts).k = "resp" THEN [got |-> TRUE, b |-> Head(attempts).b]
    ELSE FirstResponse(Tail(attempts), left - 1)

\* a retry loop that goes on after a response
ProbesSentNoBreak(attempts, left) == left

\* the requests the retry loop of one candidate issues: one per attempt, none
\* after the first response
RECURSIVE ProbesSent(_, _)
ProbesSent(attempts, left) ==
    IF left = 0 \/ attempts = <<>> THEN 0
    ELSE IF Head(attempts).k = "resp" THEN 1
    ELSE 1 + ProbesSent(Tail(attempts), left - 1)

\* a physical scan that admits every ECU that answers
PhysicalProbeAdmitAny(nodes, ecu, attempts, cfg) ==
    LET ids == IdsForEcu(HexValue(ecu), cfg.can_id_mode)
        r   == FirstResponse(attempts, cfg.retries + 1)
    IN  IF ~ids.ok THEN [exc |-> "ValueError", nodes |-> nodes]
        ELSE IF ~r.got THEN [exc |-> "none", nodes |-> nodes]
        ELSE [exc |-> "none",
              nodes |-> Touch(nodes, ecu, ids, cfg.can_id_mode, "seen:physical",
                              Slice(r.b, 0, 2) = <<80, 1>>)]

\* the body of the candidate loop of _physical_scan: [exc, nodes]
PhysicalProbe(nodes, ecu, attempts, cfg) ==
    LET ids    == IdsForEcu(HexValue(ecu), cfg.can_id_mode)
        r      == FirstResponse(attempts, cfg.retries + 1)
        uds_ok == r.got /\ Slice(r.b, 0, 2) = <<80, 1>>
    IN  IF ~ids.ok THEN [exc |-> "ValueError", nodes |-> nodes]
        ELSE IF ~r.got THEN [exc |-> "none", nodes |-> nodes]
        ELSE IF cfg.probe_session /\ ~uds_ok THEN [exc |-> "none", nodes |-> nodes]
        ELSE [exc |-> "none",
              nodes |-> Touch(nodes, ecu, ids, cfg.can_id_mode, "seen:physical", uds_ok)]

\* str < str of Python
RECURSIVE TextLess(_, _)
TextLess(a, b) ==
    IF b = <<>> THEN FALSE
    ELSE IF a = <<>> THEN TRUE
    ELSE IF Head(a) # Head(b) THEN Head(a) < Head(b)
    ELSE TextLess(Tail(a), Tail(b))

\* sorted(set(texts))
RECURSIVE SortedTexts(_)
SortedTexts(S) ==
    IF S = {} THEN <<>>
    ELSE LET m == CHOOSE x \in S : \A y \in S : y = x \/ TextLess(x, y)
         IN  <<m>> \o SortedTexts(S \ {m})

\* a topology that keeps the nodes in the order they were found
NodesAsFound(nodes) == nodes

\* topo.nodes.sort(key=lambda n: n.ecu), a stable sort
RECURSIVE SortNodes(_)
SortNodes(nodes) ==
    IF nodes = <<>> THEN <<>>
    ELSE LET k == CHOOSE i \in 1..Len(nodes) :
                      /\ \A j \in 1..Len(nodes) : ~TextLess(nodes[j].ecu, nodes[i].ecu)
                      /\ \A j \in 1..(i - 1) : nodes[j].ecu # nodes[i].ecu
         IN  <<nodes[k]>> \o SortNodes(SubSeq(nodes, 1, k - 1) \o SubSeq(nodes, k + 1, Len(nodes)))

\* _default_physical_candidates: 00..07
DefaultPhysicalCandidates == { Format02X(e) : e \in 0..7 }

\* _validate_config: "none", or the ValueError raised
ValidateConfig(cfg) ==
    IF cfg.addressing \notin {"functional", "physical", "both"} THEN "invalid addressing"
    ELSE IF cfg.can_id_mode \notin {"11bit", "29bit"} THEN "invalid can_id_mode"
    ELSE IF cfg.timeout_ms <= 0 THEN "timeout_ms must be positive"
    ELSE IF cfg.retries < 0 THEN "retries must be >= 0"
    ELSE "none"

\* the configurations scanned with: every addressing, id mode and
\* probe_session with one retry, a physical scan without retry, and two
\* configurations that are refused
ScanConfigs ==
    [addressing : {"functional", "physical", "both"}, can_id_mode : {"11bit", "29bit"},
     timeout_ms : {250}, retries : {1}, probe_session : BOOLEAN]
        \cup { [addressing |-> "physical", can_id_mode |-> "11bit", timeout_ms |-> 250,
                retries |-> 0, probe_session |-> TRUE],
               [addressing |-> "both", can_id_mode |-> "11bit", timeout_ms |-> 0,
                retries |-> 1, probe_session |-> TRUE],
               [addressing |-> "all", can_id_mode |-> "11bit", timeout_ms |-> 250,
                retries |-> 1, probe_session |-> TRUE] }

\* single frames 50 01 and 7F 10 11, a first frame, a frame whose length
\* nibble exceeds its data
PositiveFrame == <<2, 80, 1, 0, 0, 0, 0, 0>>

NegativeFrame == <<3, 127, 16, 17, 0, 0, 0, 0>>

\* what recv() returns during the functional scan: nothing; answers of ECU 01
\* and ECU 0A (outside the default candidates) on their response ids; a frame
\* on a request id; a frame of the other id mode
ScanFrames(can_id_mode) ==
    IF can_id_mode = "11bit"
        THEN { NoRx, Frame(2025, PositiveFrame), Frame(2025, NegativeFrame),
               Frame(2034, PositiveFrame), Frame(2034, <<16, 10, 80, 1, 0, 0, 0, 0>>),
               Frame(2034, <<7, 80, 1>>), Frame(2017, PositiveFrame),
               Frame(417001729, PositiveFrame) }
    ELSE { NoRx, Frame(417001729, PositiveFrame), Frame(417001729, NegativeFrame),
           Frame(417001738, PositiveFrame), Frame(417001738, <<16, 10, 80, 1, 0, 0, 0, 0>>),
           Frame(417001738, <<>>), Frame(416940529, PositiveFrame),
           Frame(2025, PositiveFrame) }

\* the ECUs that answer a physical request: 01 and 0A
Responders == {<<0, 1>>, <<0, 10>>}

IsoTpFailed == [k |-> "error", b |-> <<>>]

\* what the attempts of one candidate meet: a silent ECU times out on each;
\* a responder answers 50 01, 7F 10 11 or 50 03 at once or after a failed
\* attempt, or fails on each
ProbeAttempts(ecu, retries) ==
    IF ecu \notin Responders THEN { [n \in 1..(retries + 1) |-> Timeout] }
    ELSE LET answers == { Resp(<<80, 1>>), Resp(<<127, 16, 17>>), Resp(<<80, 3>>) }
         IN  { <<a>> : a \in answers }
                 \cup ( IF retries = 0 THEN { <<Timeout>>, <<IsoTpFailed>> }
                        ELSE { <<f, a>> : f \in {Timeout, IsoTpFailed}, a \in answers }
                                 \cup { <<Timeout, Timeout>>, <<IsoTpFailed, Timeout>> } )

\* scan_topology up to the first scan
DoScanStart ==
    /\ scan.pc = "idle"
    /\ \E cfg \in ScanConfigs :
          scan' = [pc |-> IF ValidateConfig(cfg) # "none" THEN "error"
                          ELSE IF cfg.addressing \in {"functional", "both"} THEN "functional"
                          ELSE "physical",
                   cfg |-> cfg, err |-> ValidateConfig(cfg), nodes |-> <<>>, rx |-> <<>>,
                   cands |-> IF cfg.addressing = "physical"
                                 THEN SortedTexts(DefaultPhysicalCandidates)
                             ELSE <<>>,
                   fsent |-> IF ValidateConfig(cfg) = "none"
                                    /\ cfg.addressing \in {"functional", "both"} THEN 1 ELSE 0,
                   probes |-> <<>>, topo |-> <<>>]
    /\ UNCHANGED <<StoreVars, LinkVars, LabVars, ipc, dtc, dtcs>>

\* _functional_scan: one recv() before the deadline of a round
DoFunctionalRecv ==
    /\ scan.pc = "functional"
    /\ Len(scan.rx) < MaxFrames
    /\ \E rx \in ScanFrames(scan.cfg.can_id_mode) :
          scan' = [scan EXCEPT !.rx = Append(@, rx),
                               !.nodes = FunctionalFrame(@, rx, scan.cfg.can_id_mode)]
    /\ UNCHANGED <<StoreVars, LinkVars, LabVars, ipc, dtc, dtcs>>

\* _functional_scan: the deadline of a round passed, the next probe is sent
DoFunctionalRetry ==
    /\ scan.pc = "functional"
    /\ scan.fsent < scan.cfg.retries + 1
    /\ scan' = [scan EXCEPT !.fsent = @ + 1]
    /\ UNCHANGED <<StoreVars, LinkVars, LabVars, ipc, dtc, dtcs>>

\* the deadline of the last round passed: the candidates of the physical scan
DoFunctionalEnd ==
    /\ scan.pc = "functional"
    /\ scan.fsent >= scan.cfg.retries + 1
    /\ scan' = [scan EXCEPT
                   !.pc = "physical",
                   !.cands = IF scan.cfg.addressing = "both"
                                 THEN SortedTexts(DefaultPhysicalCandidates
                                          \cup { scan.nodes[k].ecu : k \in 1..Len(scan.nodes) })
                             ELSE <<>>]
    /\ UNCHANGED <<StoreVars, LinkVars, LabVars, ipc, dtc, dtcs>>

\* _physical_scan: the next candidate
DoProbe ==
    /\ scan.pc = "physical"
    /\ scan.cands # <<>>
    /\ \E attempts \in ProbeAttempts(Head(scan.cands), scan.cfg.retries) :
          LET r == PhysicalProbe(scan.nodes, Head(scan.cands), attempts, scan.cfg)
          IN  scan' = [scan EXCEPT !.pc = IF r.exc # "none" THEN "error" ELSE "physical",
                                   !.err = r.exc,
                                   !.nodes = r.nodes,
                                   !.cands = Tail(@),
                                   !.probes = Append(@, [ecu |-> Head(scan.cands),
                                                         attempts |-> attempts,
                                                         sent |-> ProbesSent(attempts,
                                                                     scan.cfg.retries + 1)])]
    /\ UNCHANGED <<StoreVars, LinkVars, LabVars, ipc, dtc, dtcs>>

\* the topology is built, sorted and returned
DoScanFinish ==
    /\ scan.pc = "physical"
    /\ scan.cands = <<>>
    /\ scan' = [scan EXCEPT !.pc = "done", !.topo = SortNodes(scan.nodes)]
    /\ UNCHANGED <<StoreVars, LinkVars, LabVars, ipc, dtc, dtcs>>

ScanNext ==
    \/ DoScanStart
    \/ DoFunctionalRecv
    \/ DoFunctionalRetry
    \/ DoFunctionalEnd
    \/ DoProbe
    \/ DoScanFinish

ScanSpec == TpInit /\ [][ScanNext]_vars

\* the value of an ECU text
EcuValue(ecu) == 16 * ecu[1] + ecu[2]

\* C21: in every topology returned no two nodes share an ECU, the nodes are
\* in ascending ECU order, and tx_id and rx_id are 0x7E0 + ecu and 0x7E8 + ecu
\* in 11-bit mode, 0x18DA00F1 + (ecu << 8) and 0x18DAF100 + ecu in 29-bit mode.
C21_TopologyWellFormed ==
    scan.pc = "done" =>
        /\ \A j, k \in 1..Len(scan.topo) :
              j < k => EcuValue(scan.topo[j].ecu) < EcuValue(scan.topo[k].ecu)
        /\ \A k \in 1..Len(scan.topo) :
              LET n == scan.topo[k]
                  e == EcuValue(n.ecu)
              IN  /\ Len(n.ecu) = 2 /\ n.can_id_mode = scan.cfg.can_id_mode
                  /\ scan.cfg.can_id_mode = "11bit" =>
                        e <= 23 /\ n.tx_id = 2016 + e /\ n.rx_id = 2024 + e
                  /\ scan.cfg.can_id_mode = "29bit" =>
                        n.tx_id = 416940273 + 256 * e /\ n.rx_id = 417001728 + e

\* a scan with addressing both found ECU 0A by its functional answer and
\* then ECU 01 by its physical answer, and lists 01 before 0A
C21_Witness ==
    /\ scan.pc = "done" /\ scan.cfg.addressing = "both" /\ Len(scan.nodes) = 2
    /\ scan.nodes[1].ecu = <<0, 10>> /\ scan.nodes[2].ecu = <<0, 1>>
    /\ scan.topo[1].ecu = <<0, 1>> /\ scan.topo[2].ecu = <<0, 10>>

\* a 29-bit scan returned ECU 0A on 0x18DA0AF1 / 0x18DAF10A
C21_ExtendedWitness ==
    /\ scan.pc = "done" /\ scan.cfg.can_id_mode = "29bit"
    /\ \E k \in 1..Len(scan.topo) :
          /\ scan.topo[k].ecu = <<0, 10>>
          /\ scan.topo[k].tx_id = 416942833 /\ scan.topo[k].rx_id = 417001738

\* the response id ids_for_ecu gives for an ECU value in the scan's id mode
ResponseId(e) == IF scan.cfg.can_id_mode = "11bit" THEN 2024 + e ELSE 417001728 + e

\* a frame received in the functional scan is an answer of ECU e, and is a
\* single frame carrying 50 01
SeenFunctional(e) ==
    \E i \in 1..Len(scan.rx) : scan.rx[i].id = ResponseId(e)

PositiveFunctional(e) ==
    \E i \in 1..Len(scan.rx) :
        LET d == scan.rx[i].data
        IN  /\ scan.rx[i].id = ResponseId(e)
            /\ Len(d) >= 3 /\ d[1] \in 2..7 /\ d[1] <= Len(d) - 1 /\ d[2] = 80 /\ d[3] = 1

\* the physical scan got an answer from ECU e, and the answer is 50 01
AnsweredPhysical(e) ==
    \E i \in 1..Len(scan.probes) :
        /\ EcuValue(scan.probes[i].ecu) = e
        /\ scan.probes[i].attempts[Len(scan.probes[i].attempts)].k = "resp"

PositivePhysical(e) ==
    \E i \in 1..Len(scan.probes) :
        LET a == scan.probes[i].attempts
        IN  /\ EcuValue(scan.probes[i].ecu) = e
            /\ a[Len(a)].k = "resp" /\ Len(a[Len(a)].b) >= 2
            /\ a[Len(a)].b[1] = 80 /\ a[Len(a)].b[2] = 1

\* the physical scan admitted ECU e
AdmittedPhysical(e) ==
    IF scan.cfg.probe_session THEN PositivePhysical(e) ELSE AnsweredPhysical(e)

NodesOf(e) == { k \in 1..Len(scan.topo) : EcuValue(scan.topo[k].ecu) = e }

\* C22 (the result): with addressing both, an ECU is one node when a scan
\* saw it and none otherwise; its uds_confirmed is true iff 50 01 came from
\* it in the functional or in the physical scan; its notes name the scans
\* that saw it.
C22_Merged ==
    (scan.pc = "done" /\ scan.cfg.addressing = "both") =>
        \A e \in 0..255 :
            /\ Cardinality(NodesOf(e)) = IF SeenFunctional(e) \/ AdmittedPhysical(e) THEN 1 ELSE 0
            /\ \A k \in NodesOf(e) :
                  /\ scan.topo[k].uds_confirmed <=> (PositiveFunctional(e) \/ PositivePhysical(e))
                  /\ scan.topo[k].notes =
                        (IF SeenFunctional(e) THEN {"seen:functional"} ELSE {})
                            \cup (IF AdmittedPhysical(e) THEN {"seen:physical"} ELSE {})

\* C22 (during the scan): a node stays, and its uds_confirmed never changes
\* from true to false
C22_StaysConfirmed ==
    (scan.pc \in {"functional", "physical"} /\ scan'.pc \in {"functional", "physical", "done"}) =>
        /\ Len(scan'.nodes) >= Len(scan.nodes)
        /\ \A k \in 1..Len(scan.nodes) :
              /\ scan'.nodes[k].ecu = scan.nodes[k].ecu
              /\ scan.nodes[k].uds_confirmed => scan'.nodes[k].uds_confirmed

\* C22: the merged node of a scan with addressing both
C22_MergedNode == []C22_Merged /\ [][C22_StaysConfirmed]_vars

\* ECU 01 answered the functional request with 7F 10 11 and the physical
\* request with 50 01: one node, confirmed, with both notes
C22_Witness ==
    /\ scan.pc = "done" /\ scan.cfg.addressing = "both"
    /\ SeenFunctional(1) /\ ~PositiveFunctional(1) /\ PositivePhysical(1)
    /\ \E k \in NodesOf(1) :
          /\ scan.topo[k].uds_confirmed
          /\ scan.topo[k].notes = {"seen:functional", "seen:physical"}

\* ECU 01 answered the functional request with 50 01 and then with 7F 10 11
\* and the physical request with 7F 10 11: it stays confirmed
C22_ConfirmedThenNegativeWitness ==
    /\ scan.pc = "done" /\ scan.cfg.addressing = "both" /\ ~scan.cfg.probe_session
    /\ Len(scan.rx) = 2 /\ scan.rx[1] = Frame(ResponseId(1), PositiveFrame)
    /\ scan.rx[2] = Frame(ResponseId(1), NegativeFrame)
    /\ AnsweredPhysical(1) /\ ~PositivePhysical(1)
    /\ \E k \in NodesOf(1) :
          /\ scan.topo[k].uds_confirmed
          /\ scan.topo[k].notes = {"seen:functional", "seen:physical"}

\* C23: with addressing physical and probe_session, every node returned is
\* confirmed, carries the note seen:physical alone and answered 50 01; an ECU
\* that did not answer 50 01 is absent.
C23_AdmittedByPositive ==
    (scan.pc = "done" /\ scan.cfg.addressing = "physical" /\ scan.cfg.probe_session) =>
        /\ \A k \in 1..Len(scan.topo) :
              /\ scan.topo[k].uds_confirmed
              /\ scan.topo[k].notes = {"seen:physical"}
              /\ PositivePhysical(EcuValue(scan.topo[k].ecu))
        /\ \A e \in 0..255 : ~PositivePhysical(e) => NodesOf(e) = {}

\* ECU 01 answered 7F 10 11 after a failed attempt and is absent from the
\* result of a physical scan with probe_session
C23_Witness ==
    /\ scan.pc = "done" /\ scan.cfg.addressing = "physical" /\ scan.cfg.probe_session
    /\ \E i \in 1..Len(scan.probes) :
          /\ scan.probes[i].ecu = <<0, 1>>
          /\ scan.probes[i].attempts = <<IsoTpFailed, Resp(<<127, 16, 17>>)>>
    /\ scan.topo = <<>>

\* ECU 01 answered 50 01 and is the one node of the result
C23_AdmittedWitness ==
    /\ scan.pc = "done" /\ scan.cfg.addressing = "physical" /\ scan.cfg.probe_session
    /\ PositivePhysical(1)
    /\ Len(scan.topo) = 1 /\ scan.topo[1].ecu = <<0, 1>> /\ scan.topo[1].uds_confirmed

(***************************************************************************)
(* The JSONL server and the watcher behind it: one client connection.  A   *)
(* request line is [kind, cmd, args_ok, w]: kind tells what decoding it    *)
(* meets ("bad_utf8", "blank", "bad_json", "deep_json" for JSON nested     *)
(* deeper than the interpreter's recursion limit, "non_object", "object"); *)
(* cmd is the object's cmd ("" when missing); args_ok, that ecu is a       *)
(* string and did parses; w, the fields of a watch_start.  A line written  *)
(* is [t, ok, msg, tick, key, value], ok being "true", "false" or          *)
(* "absent".  The connection is read through a buffered file object over a *)
(* socket with a timeout: once a read has timed out, the object refuses    *)
(* every later read with OSError("cannot read from timed out object").     *)
(***************************************************************************)
MaxLines == 3

MaxTicks == 3

NoMax == [none |-> TRUE, n |-> 0]

MaxOf(n) == [none |-> FALSE, n |-> n]

NoWatch == [items |-> <<>>, items_ok |-> FALSE, emit |-> "", tick_ms |-> 200, max_ticks |-> NoMax]

Line(kind, cmd, args_ok, w) == [kind |-> kind, cmd |-> cmd, args_ok |-> args_ok, w |-> w]

OutLine(t, ok, msg, tick, key, value) ==
    [t |-> t, ok |-> ok, msg |-> msg, tick |-> tick, key |-> key, value |-> value]

\* protocol.error
Error(msg) == OutLine("error", "false", msg, 0, <<>>, 0)

\* decode_json_line: [exc, msg]; json.loads raises RecursionError, which is
\* no JSONDecodeError, on a text nested too deep
decode_json_line(line) ==
    IF line.kind = "bad_utf8" THEN [exc |-> "ValueError", msg |-> "invalid utf-8"]
    ELSE IF line.kind = "blank" THEN [exc |-> "ValueError", msg |-> "empty request"]
    ELSE IF line.kind = "bad_json" THEN [exc |-> "ValueError", msg |-> "invalid json"]
    ELSE IF line.kind = "deep_json"
        THEN [exc |-> "RecursionError", msg |-> "maximum recursion depth exceeded"]
    ELSE IF line.kind = "non_object" THEN [exc |-> "ValueError", msg |-> "invalid request"]
    ELSE [exc |-> "none", msg |-> ""]

\* protocol.handle_request: [exc, msg, reply, dispatched]; svc is how the
\* call of the diagnostic service ends ("none" or the exception it raises)
handle_request(request, svc) ==
    LET refuse(msg) == [exc |-> "none", msg |-> "", reply |-> Error(msg), dispatched |-> FALSE]
        call == [exc |-> svc, msg |-> svc,
                 reply |-> OutLine("resp", "true", "", 0, <<>>, 0), dispatched |-> TRUE]
    IN  IF request.cmd = "" THEN refuse("missing cmd")
        ELSE IF request.cmd = "scan_ecus" THEN call
        ELSE IF request.cmd \in {"read_dtcs", "clear_dtcs"}
            THEN IF ~request.args_ok THEN refuse("ecu must be hex string") ELSE call
        ELSE IF request.cmd = "read_did"
            THEN IF ~request.args_ok THEN refuse("ecu or did must be hex string") ELSE call
        ELSE refuse("unknown cmd")

\* JsonlUnixServer._start_watch: "none", or the message of the ValueError
StartWatch(w) ==
    IF ~w.items_ok \/ w.items = <<>> THEN "items must be a non-empty list"
    ELSE IF w.emit \notin {"changed", "always"} THEN "emit must be changed|always"
    ELSE "none"

\* JsonlUnixServer._handle_line: [exc, reply, watching, dispatched]; exc is
\* an exception the method lets out
HandleLine(line, svc) ==
    LET d == decode_json_line(line)
        h == handle_request(line, svc)
    IN  IF d.exc = "ValueError"
            THEN [exc |-> "none", reply |-> Error(d.msg), watching |-> FALSE, dispatched |-> FALSE]
        ELSE IF d.exc # "none"
            THEN [exc |-> d.exc, reply |-> Error(""), watching |-> FALSE, dispatched |-> FALSE]
        ELSE IF line.cmd = "watch_start"
            THEN IF StartWatch(line.w) # "none"
                     THEN [exc |-> "none", reply |-> Error(StartWatch(line.w)),
                           watching |-> FALSE, dispatched |-> FALSE]
                 ELSE [exc |-> "none", reply |-> OutLine("watching", "true", "", 0, <<>>, 0),
                       watching |-> TRUE, dispatched |-> FALSE]
        ELSE IF h.exc # "none"
            THEN [exc |-> "none", reply |-> Error(h.msg), watching |-> FALSE,
                  dispatched |-> h.dispatched]
        ELSE [exc |-> "none", reply |-> h.reply, watching |-> FALSE, dispatched |-> h.dispatched]

\* _last[key] = value
DictSet(d, k, v) == [x \in (DOMAIN d) \cup {k} |-> IF x = k THEN v ELSE d[x]]

\* DiagnosticService.read_did as the watcher uses it: [exc, ecu, did, value];
\* ans is the ECU's answer, a value, or -1 when the read fails
ServiceReadDid(item, ans) ==
    LET e == NormalizeEcu(item.ecu)
    IN  IF ~e.ok THEN [exc |-> "ValueError", ecu |-> <<>>, did |-> <<>>, value |-> 0]
        ELSE IF ans = -1 THEN [exc |-> "DidError", ecu |-> <<>>, did |-> <<>>, value |-> 0]
        ELSE [exc |-> "none", ecu |-> e.ecu, did |-> Format04X(item.did), value |-> ans]

\* a watcher that keeps the last value under the ECU as the item spells it
RECURSIVE WatcherTickKeyedByItem(_, _, _, _, _, _)
WatcherTickKeyedByItem(items, emit_mode, lastv, tick, answers, events) ==
    IF items = <<>> THEN [exc |-> "none", lastv |-> lastv, events |-> events]
    ELSE LET r    == ServiceReadDid(Head(items), Head(answers))
             key  == <<Head(items).ecu, r.did>>
             emit == emit_mode = "always" \/ key \notin DOMAIN lastv \/ lastv[key] # r.value
         IN  IF r.exc # "none" THEN [exc |-> r.exc, lastv |-> lastv, events |-> <<>>]
             ELSE WatcherTickKeyedByItem(Tail(items), emit_mode, DictSet(lastv, key, r.value),
                                         tick, Tail(answers),
                                         IF emit THEN Append(events,
                                                             OutLine("event", "absent", "", tick,
                                                                     <<r.ecu, r.did>>, r.value))
                                         ELSE events)

\* a watcher that passes over an item whose read fails
RECURSIVE WatcherTickSkipsFailed(_, _, _, _, _, _)
WatcherTickSkipsFailed(items, emit_mode, lastv, tick, answers, events) ==
    IF items = <<>> THEN [exc |-> "none", lastv |-> lastv, events |-> events]
    ELSE LET r    == ServiceReadDid(Head(items), Head(answers))
             key  == <<r.ecu, r.did>>
             emit == emit_mode = "always" \/ key \notin DOMAIN lastv \/ lastv[key] # r.value
         IN  IF r.exc # "none"
                 THEN WatcherTickSkipsFailed(Tail(items), emit_mode, lastv, tick, Tail(answers),
                                             events)
             ELSE WatcherTickSkipsFailed(Tail(items), emit_mode, DictSet(lastv, key, r.value),
                                         tick, Tail(answers),
                                         IF emit THEN Append(events,
                                                             OutLine("event", "absent", "", tick,
                                                                     key, r.value))
                                         ELSE events)

\* Watcher.tick: [exc, lastv, events]
RECURSIVE WatcherTick(_, _, _, _, _, _)
WatcherTick(items, emit_mode, lastv, tick, answers, events) ==
    IF items = <<>> THEN [exc |-> "none", lastv |-> lastv, events |-> events]
    ELSE LET r    == ServiceReadDid(Head(items), Head(answers))
             key  == <<r.ecu, r.did>>
             emit == emit_mode = "always" \/ key \notin DOMAIN lastv \/ lastv[key] # r.value
         IN  IF r.exc # "none" THEN [exc |-> r.exc, lastv |-> lastv, events |-> <<>>]
             ELSE WatcherTick(Tail(items), emit_mode, DictSet(lastv, key, r.value), tick,
                              Tail(answers),
                              IF emit THEN Append(events, OutLine("event", "absent", "", tick,
                                                                  key, r.value))
                              ELSE events)

\* the end of a tick of the stream: done when max_ticks is reached, else the
\* wait for tick_ms, entered while the deadline is ahead
AfterTick(tick, max_ticks, tick_ms) ==
    IF ~max_ticks.none /\ tick >= max_ticks.n THEN "done"
    ELSE IF tick_ms > 0 THEN "wait"
    ELSE "stream"

\* the reads that time out before the deadline of a wait for tick_ms: each
\* waits min(0.1, remaining) seconds
Polls(tick_ms) == IF tick_ms <= 0 THEN 0 ELSE (tick_ms + 99) \div 100

\* the items watched: ECU 01 DID 0x1234; the same pair twice, the ECU
\* written "1" the second time; an ECU that is no hex text
WatchedOnce == << [ecu |-> <<0, 1>>, did |-> 4660] >>

WatchedTwice == << [ecu |-> <<0, 1>>, did |-> 4660], [ecu |-> <<1>>, did |-> 4660] >>

WatchedBad == << [ecu |-> <<28, 28>>, did |-> 4660] >>

WatchStart(items, emit, tick_ms, max_ticks) ==
    Line("object", "watch_start", TRUE,
         [items |-> items, items_ok |-> TRUE, emit |-> emit, tick_ms |-> tick_ms,
          max_ticks |-> max_ticks])

WatchStop == Line("object", "watch_stop", TRUE, NoWatch)

\* the lines of a client that watches
WatchLines ==
    { WatchStart(WatchedTwice, "changed", 200, NoMax),
      WatchStart(WatchedTwice, "changed", 50, MaxOf(2)),
      WatchStart(WatchedOnce, "changed", 200, MaxOf(0)),
      WatchStart(WatchedOnce, "always", 50, MaxOf(1)),
      WatchStart(WatchedOnce, "changed", 0, NoMax),
      WatchStart(WatchedOnce, "changed", 0, MaxOf(2)),
      WatchStart(WatchedBad, "changed", 200, NoMax),
      WatchStop, Line("object", "read_dtcs", TRUE, NoWatch), Line("bad_json", "", FALSE, NoWatch) }

\* the lines of a client that sends requests: what is no JSON object, every
\* command with and without its arguments, a watch_start that is refused and
\* one that is accepted
RequestLines ==
    { Line(k, "", FALSE, NoWatch) : k \in {"bad_utf8", "blank", "bad_json", "deep_json",
                                           "non_object", "object"} }
        \cup { Line("object", c, a, NoWatch) :
                   c \in {"scan_ecus", "read_dtcs", "clear_dtcs", "read_did", "watch_stop", "bogus"},
                   a \in BOOLEAN }
        \cup { WatchStart(<<>>, "changed", 200, NoMax), WatchStart(WatchedOnce, "sometimes", 200, NoMax),
               WatchStart(WatchedOnce, "changed", 50, MaxOf(2)) }

\* how a call of the diagnostic service ends
ServiceOutcomes == {"none", "UdsError", "ValueError"}

\* what the ECU answers to a read of the DID watched: a value, or -1 for a
\* read that fails
ReadAnswers == {0, 1, -1}

\* accept(): the state _handle_client starts with
DoConnect ==
    /\ ipc.pc = "closed"
    /\ ipc' = [pc |-> "idle", watching |-> FALSE, w |-> NoWatch, lastv |-> <<>>, tick |-> 0,
               left |-> 0, timed_out |-> FALSE, inq |-> <<>>, sent |-> 0, out |-> <<>>,
               closed |-> FALSE, polls |-> 0,
               tk |-> [n |-> 0, failed |-> FALSE, at |-> 0, tick |-> 0, reads |-> 0],
               read |-> [n |-> 0, line |-> Line("blank", "", FALSE, NoWatch), streaming |-> FALSE,
                         svc |-> "none", wrote |-> 0, reply |-> Error(""), dispatched |-> FALSE,
                         exc |-> "none"]]
    /\ UNCHANGED <<StoreVars, LinkVars, LabVars, scan, dtc, dtcs>>

\* the client writes a line; at is the tick counter at that time, active
\* tells that a watch is active
ClientSend(lines) ==
    /\ ipc.pc \in {"idle", "stream", "wait"}
    /\ ~ipc.closed
    /\ ipc.sent < MaxLines
    /\ \E line \in lines :
          ipc' = [ipc EXCEPT !.inq = Append(@, [line |-> line, at |-> ipc.tick,
                                                 active |-> ipc.watching]),
                             !.sent = @ + 1]
    /\ UNCHANGED <<StoreVars, LinkVars, LabVars, scan, dtc, dtcs>>

\* _handle_client, watcher is None: read a line, handle it, write the reply
DoHandleLine ==
    /\ ipc.pc = "idle"
    /\ ~ipc.timed_out
    /\ ~ipc.closed
    /\ ipc.inq # <<>>
    /\ \E svc \in ServiceOutcomes :
          LET line == Head(ipc.inq).line
              h    == HandleLine(line, svc)
          IN  /\ (svc # "none") => handle_request(line, svc).dispatched
              /\ ipc' = [ipc EXCEPT
                            !.pc = IF h.exc # "none" THEN "crashed"
                                   ELSE IF h.watching THEN "stream" ELSE "idle",
                            !.watching = h.watching,
                            !.w = IF h.watching THEN line.w ELSE @,
                            !.lastv = IF h.watching THEN <<>> ELSE @,
                            !.tick = IF h.exc # "none" THEN @ ELSE 0,
                            !.inq = Tail(@),
                            !.out = IF h.exc # "none" THEN @ ELSE Append(@, h.reply),
                            !.read = [n |-> @.n + 1, line |-> line, streaming |-> FALSE,
                                      svc |-> svc, wrote |-> IF h.exc # "none" THEN 0 ELSE 1,
                                      reply |-> h.reply, dispatched |-> h.dispatched,
                                      exc |-> h.exc]]
    /\ UNCHANGED <<StoreVars, LinkVars, LabVars, scan, dtc, dtcs>>

\* a read of the tick fails
TickFails(items, answers) ==
    \E i \in 1..Len(items) : ServiceReadDid(items[i], answers[i]).exc # "none"

\* _handle_client, watch streaming mode: one tick and what follows it; once
\* the client has closed the connection a write fails, which ends the
\* handler, and a tick that writes nothing goes on.  The tick counter is
\* followed up to MaxTicks; past it the ticks that write nothing are followed,
\* which the counter does not tell apart
DoTick ==
    /\ ipc.pc = "stream"
    /\ \E answers \in [1..Len(ipc.w.items) -> ReadAnswers] :
          LET tick   == IF ipc.tick < MaxTicks THEN ipc.tick + 1 ELSE MaxTicks
              r      == WatcherTick(ipc.w.items, ipc.w.emit, ipc.lastv, tick, answers, <<>>)
              next   == AfterTick(tick, ipc.w.max_ticks, ipc.w.tick_ms)
              stops  == r.exc # "none" \/ next = "done"
              writes == stops \/ r.events # <<>>
          IN  /\ ipc.tick < MaxTicks \/ ~writes
              /\ ipc' = [ipc EXCEPT
                         !.tick = tick,
                         !.lastv = r.lastv,
                         !.out = IF ipc.closed THEN @
                                 ELSE IF r.exc # "none" THEN Append(@, Error(r.exc))
                                 ELSE IF next = "done"
                                     THEN Append(@ \o r.events,
                                                 OutLine("done", "true", "", tick, <<>>, 0))
                                 ELSE @ \o r.events,
                         !.watching = ~stops,
                         !.left = Polls(ipc.w.tick_ms),
                         !.polls = IF ipc.closed /\ @ < MaxTicks THEN @ + 1 ELSE @,
                         !.tk = [n |-> 1, failed |-> TickFails(ipc.w.items, answers),
                                 at |-> Len(ipc.out), tick |-> tick, reads |-> ipc.read.n],
                         !.pc = IF ipc.closed /\ writes THEN "ended"
                                ELSE IF stops THEN "idle" ELSE next]
    /\ UNCHANGED <<StoreVars, LinkVars, LabVars, scan, dtc, dtcs>>

\* the wait loop: a line arrives before the read times out; late tells that
\* the deadline has passed when the line has been handled, which takes a
\* line that arrives at the end of the wait, with none behind it
DoWaitRead ==
    /\ ipc.pc = "wait"
    /\ ~ipc.timed_out
    /\ ~ipc.closed
    /\ ipc.inq # <<>>
    /\ \E late \in {b \in BOOLEAN : b => Len(ipc.inq) = 1} :
          LET line == Head(ipc.inq).line
              d    == decode_json_line(line)
              stop == d.exc = "none" /\ line.cmd = "watch_stop"
              reply == IF d.exc # "none" THEN Error(d.msg)
                       ELSE IF stop THEN OutLine("stopped", "true", "", ipc.tick, <<>>, 0)
                       ELSE Error("watch active; only watch_stop is accepted")
          IN  ipc' = [ipc EXCEPT
                         !.pc = IF d.exc \notin {"none", "ValueError"} THEN "crashed"
                                ELSE IF stop THEN "idle"
                                ELSE IF late THEN "stream" ELSE "wait",
                         !.watching = ~stop,
                         !.inq = Tail(@),
                         !.out = IF d.exc \in {"none", "ValueError"} THEN Append(@, reply)
                                 ELSE @,
                         !.read = [n |-> @.n + 1, line |-> line, streaming |-> TRUE,
                                   svc |-> "none",
                                   wrote |-> IF d.exc \in {"none", "ValueError"} THEN 1 ELSE 0,
                                   reply |-> reply, dispatched |-> FALSE,
                                   exc |-> IF d.exc = "ValueError" THEN "none" ELSE d.exc]]
    /\ UNCHANGED <<StoreVars, LinkVars, LabVars, scan, dtc, dtcs>>

\* the wait loop: no line arrives and the read times out, which the loop
\* passes over; the loop ends when the deadline has passed
DoWaitTimeout ==
    /\ ipc.pc = "wait"
    /\ ~ipc.timed_out
    /\ ~ipc.closed
    /\ ipc.inq = <<>>
    /\ ipc' = [ipc EXCEPT !.timed_out = TRUE,
                          !.left = @ - 1,
                          !.pc = IF ipc.left - 1 <= 0 THEN "stream" ELSE "wait"]
    /\ UNCHANGED <<StoreVars, LinkVars, LabVars, scan, dtc, dtcs>>

\* a readline after a read of the connection has timed out: the OSError
\* leaves _handle_client and serve_forever, and the connection is closed
DoReadFails ==
    /\ ipc.pc \in {"idle", "wait"}
    /\ ipc.timed_out
    /\ ipc' = [ipc EXCEPT !.pc = "crashed"]
    /\ UNCHANGED <<StoreVars, LinkVars, LabVars, scan, dtc, dtcs>>

\* the client closes the connection during a watch stream, every line it
\* sent having been read
ClientClose ==
    /\ ipc.pc \in {"stream", "wait"}
    /\ ~ipc.closed
    /\ ipc.inq = <<>>
    /\ ipc' = [ipc EXCEPT !.closed = TRUE]
    /\ UNCHANGED <<StoreVars, LinkVars, LabVars, scan, dtc, dtcs>>

\* a readline after the client has closed the connection returns no line
\* (or fails), which ends the handler
DoReadClosed ==
    /\ ipc.pc \in {"idle", "wait"}
    /\ ~ipc.timed_out
    /\ ipc.closed
    /\ ipc' = [ipc EXCEPT !.pc = "ended"]
    /\ UNCHANGED <<StoreVars, LinkVars, LabVars, scan, dtc, dtcs>>

WatchNext ==
    \/ DoConnect
    \/ ClientSend(WatchLines)
    \/ DoHandleLine
    \/ DoTick
    \/ DoWaitRead
    \/ DoWaitTimeout
    \/ DoReadFails

WatchSpec == TpInit /\ [][WatchNext]_vars

RequestNext ==
    \/ DoConnect
    \/ ClientSend(RequestLines)
    \/ DoHandleLine
    \/ DoTick
    \/ DoWaitRead
    \/ DoWaitTimeout
    \/ DoReadFails

RequestSpec == TpInit /\ [][RequestNext]_vars

\* the watch_start lines of a client that closes the connection
CloseLines ==
    { WatchStart(WatchedOnce, e, ms, mx) :
          e \in {"changed", "always"}, ms \in {0, 50, 200}, mx \in {NoMax, MaxOf(2)} }

CloseNext ==
    \/ DoConnect
    \/ ClientSend(CloseLines)
    \/ ClientClose
    \/ DoHandleLine
    \/ DoTick
    \/ DoWaitRead
    \/ DoWaitTimeout
    \/ DoReadFails
    \/ DoReadClosed

CloseSpec == TpInit /\ [][CloseNext]_vars

\* the lines of a client that starts a watch and stops it
StopLines ==
    { WatchStart(WatchedOnce, "changed", 0, NoMax), WatchStart(WatchedOnce, "changed", 200, NoMax),
      WatchStart(WatchedOnce, "changed", 50, MaxOf(2)), WatchStop }

StopNext ==
    \/ DoConnect
    \/ ClientSend(StopLines)
    \/ DoHandleLine
    \/ DoTick
    \/ DoWaitRead
    \/ DoWaitTimeout
    \/ DoReadFails

\* the server's loop goes on whenever it can take a step
StopLiveSpec ==
    /\ TpInit /\ [][StopNext]_vars
    /\ WF_vars(DoHandleLine) /\ WF_vars(DoTick) /\ WF_vars(DoWaitRead)
    /\ WF_vars(DoWaitTimeout) /\ WF_vars(DoReadFails)

(***************************************************************************)
(* The lines of the stream that the connection started last: what follows  *)
(* the last {ok, watching} line.                                           *)
(***************************************************************************)
Connected == ipc.pc # "closed"

StreamStart ==
    IF \E i \in 1..Len(ipc.out) : ipc.out[i].t = "watching"
        THEN CHOOSE i \in 1..Len(ipc.out) :
                 /\ ipc.out[i].t = "watching"
                 /\ \A j \in (i + 1)..Len(ipc.out) : ipc.out[j].t # "watching"
    ELSE 0

StreamIndices == IF StreamStart = 0 THEN {} ELSE (StreamStart + 1)..Len(ipc.out)

StreamEvents == {i \in StreamIndices : ipc.out[i].t = "event"}

\* C24: in a watch stream with emit=changed, any two consecutive live_did
\* events written for the same (ecu, did) carry different values, whatever
\* the ECU returns and whatever the item list, one that names a pair twice
\* included.
C24_ChangedValuesDiffer ==
    (Connected /\ StreamStart > 0 /\ ipc.w.emit = "changed") =>
        \A i, j \in StreamEvents :
            (/\ i < j
             /\ ipc.out[i].key = ipc.out[j].key
             /\ \A k \in StreamEvents : (i < k /\ k < j) => ipc.out[k].key # ipc.out[i].key)
                => ipc.out[i].value # ipc.out[j].value

\* a changed stream over a list that names the pair twice has written two
\* events of one tick for it, and a later tick has written none
C24_Witness ==
    /\ Connected /\ StreamStart > 0 /\ ipc.w.emit = "changed"
    /\ ipc.w.items = WatchedTwice
    /\ ipc.tick >= 2
    /\ \E i, j \in StreamEvents :
          /\ i < j
          /\ ipc.out[i].key = ipc.out[j].key
          /\ ipc.out[i].tick = 1 /\ ipc.out[j].tick = 1
    /\ \A i \in StreamEvents : ipc.out[i].tick = 1

\* a changed stream has written a value again after another value
C24_ChangedBackWitness ==
    /\ Connected /\ StreamStart > 0 /\ ipc.w.emit = "changed"
    /\ \E i, j, k \in StreamEvents :
          /\ i < j /\ j < k
          /\ ipc.out[i].key = ipc.out[j].key /\ ipc.out[j].key = ipc.out[k].key
          /\ ipc.out[i].value = ipc.out[k].value
          /\ ipc.out[i].value # ipc.out[j].value

\* an always stream writes equal values one after the other
C24_AlwaysWitness ==
    /\ Connected /\ StreamStart > 0 /\ ipc.w.emit = "always"
    /\ \E i \in StreamEvents : ipc.out[i].tick = 1

StreamStopped == \E i \in StreamIndices : ipc.out[i].t = "stopped"

\* C25: a stream started with max_ticks = N, N >= 0, that no watch_stop
\* ends writes events whose ticks lie in 1..N only, then one {ok, done}
\* line after tick N and no event after it; the server does not drop the
\* connection before that line.
C25_TicksWithinMax ==
    (/\ Connected /\ StreamStart > 0
     /\ ~ipc.w.max_ticks.none /\ ipc.w.max_ticks.n >= 0
     /\ ~StreamStopped) =>
        /\ \A i \in StreamEvents : 1 <= ipc.out[i].tick /\ ipc.out[i].tick <= ipc.w.max_ticks.n
        /\ \A i \in StreamIndices :
              ipc.out[i].t = "done" =>
                  /\ ipc.out[i].tick = ipc.w.max_ticks.n
                  /\ \A j \in StreamIndices : ipc.out[j].t \in {"done", "event"} => j <= i
        /\ ~(ipc.pc = "crashed" /\ ipc.watching)

\* what holds of C25: with N >= 1 the ticks of the events lie in 1..N, and
\* a done line is written at tick N, once, after the last event
C25_PositiveMaxTicks ==
    (/\ Connected /\ StreamStart > 0
     /\ ~ipc.w.max_ticks.none /\ ipc.w.max_ticks.n >= 1
     /\ ~StreamStopped) =>
        /\ \A i \in StreamEvents : 1 <= ipc.out[i].tick /\ ipc.out[i].tick <= ipc.w.max_ticks.n
        /\ \A i \in StreamIndices :
              ipc.out[i].t = "done" =>
                  /\ ipc.out[i].tick = ipc.w.max_ticks.n
                  /\ \A j \in StreamIndices : ipc.out[j].t \in {"done", "event"} => j <= i

\* a stream with max_ticks = 2 has ended with its done line
C25_DoneWitness ==
    /\ Connected /\ StreamStart > 0
    /\ ipc.w.max_ticks = MaxOf(2)
    /\ \E i \in StreamIndices : ipc.out[i].t = "done"
    /\ \E i \in StreamEvents : ipc.out[i].tick = 2

\* what the server does with a line it reads while a watch is active
ReadWhileWatching ==
    (Connected /\ ipc.read.n > 0 /\ ipc.read.streaming) =>
        IF ipc.read.line.kind = "object" /\ ipc.read.line.cmd = "watch_stop"
            THEN /\ ipc.read.wrote = 1
                 /\ ipc.read.reply.t = "stopped" /\ ipc.read.reply.ok = "true"
        ELSE /\ ipc.read.wrote = 1
             /\ ipc.read.reply.t = "error" /\ ipc.read.reply.ok = "false"
             /\ ~ipc.read.dispatched

\* no event follows a {ok, stopped} line in its stream
NoEventAfterStopped ==
    \A i \in StreamIndices :
        ipc.out[i].t = "stopped" => \A j \in StreamEvents : j < i

\* C26: while a watch is active, a client command other than watch_stop is
\* answered with an error, is not dispatched to the service and leaves the
\* stream active; a watch_stop is answered with {ok, stopped} and no event
\* is written after that line.  A line sent while the watch is active is
\* read before a second tick has passed, and the server does not drop the
\* connection over it.
C26_OnlyStopWhileWatching ==
    /\ ReadWhileWatching
    /\ (Connected /\ ipc.read.n > 0 /\ ipc.read.streaming /\ ipc.read.reply.t = "error"
            /\ ipc.pc \in {"wait", "stream"}) => ipc.watching
    /\ Connected => NoEventAfterStopped
    /\ (Connected /\ ipc.watching) =>
          \A k \in 1..Len(ipc.inq) :
              (ipc.inq[k].active /\ ipc.inq[k].line.kind = "object") =>
                  (ipc.pc # "crashed" /\ ipc.tick <= ipc.inq[k].at + 1)

\* what holds of C26: the lines the server reads while a watch is active
C26_ReadWhileWatching ==
    /\ ReadWhileWatching
    /\ Connected => NoEventAfterStopped

\* a command was refused while the watch went on, then a watch_stop ended it
C26_StoppedWitness ==
    /\ Connected /\ StreamStart > 0
    /\ \E i, j \in StreamIndices :
          /\ i < j
          /\ ipc.out[i] = Error("watch active; only watch_stop is accepted")
          /\ ipc.out[j].t = "stopped"
    /\ ~ipc.watching

\* the failures of a request: the line is no JSON object, its cmd is missing
\* or unknown, an argument is wrong, or the service call raises
RequestFails(line, svc) ==
    \/ line.kind # "object"
    \/ line.cmd = "watch_start" /\ StartWatch(line.w) # "none"
    \/ line.cmd # "watch_start" /\ handle_request(line, svc).reply.t = "error"
    \/ line.cmd # "watch_start" /\ handle_request(line, svc).exc # "none"

\* C27: outside streaming, every request line is answered with one line
\* that carries ok before the next request is read; on a failure that line
\* is {ok: false, error}; the connection stays open for further requests.
C27_OneResponsePerRequest ==
    /\ (Connected /\ ipc.read.n > 0 /\ ~ipc.read.streaming) =>
          /\ ipc.read.exc = "none"
          /\ ipc.read.wrote = 1
          /\ ipc.read.reply.ok \in {"true", "false"}
          /\ RequestFails(ipc.read.line, ipc.read.svc) =>
                (ipc.read.reply.t = "error" /\ ipc.read.reply.ok = "false")
    /\ Connected => ~(ipc.pc = "crashed" /\ ~ipc.watching)

\* what holds of C27: a line whose handling raises ValueError or whose
\* service call raises is answered with one error line
C27_CaughtFailures ==
    (Connected /\ ipc.read.n > 0 /\ ~ipc.read.streaming /\ ipc.read.line.kind # "deep_json") =>
        /\ ipc.read.exc = "none"
        /\ ipc.read.wrote = 1
        /\ ipc.read.reply.ok \in {"true", "false"}
        /\ RequestFails(ipc.read.line, ipc.read.svc) =>
              (ipc.read.reply.t = "error" /\ ipc.read.reply.ok = "false")
        /\ ~RequestFails(ipc.read.line, ipc.read.svc) => ipc.read.reply.ok = "true"

\* a service call that raised was answered with an error line, and a
\* request after it was served
C27_ServedAfterFailureWitness ==
    /\ Connected /\ ipc.pc = "idle"
    /\ Len(ipc.out) >= 2
    /\ ipc.out[1] = Error("UdsError")
    /\ ipc.out[2].t = "resp"

\* the stream of the last tick is still the last stream of the connection
TickInLastStream == Connected /\ ipc.tk.n > 0 /\ StreamStart <= ipc.tk.at

\* C38: when a DID read of a watch tick fails, the server writes no event
\* of that tick and exactly one {ok: false, error} line, and the stream is
\* over: no later tick runs, and no done or stopped line follows.
C38_TickErrorEndsStream ==
    (TickInLastStream /\ ipc.tk.failed) =>
        /\ Len(ipc.out) > ipc.tk.at
        /\ ipc.out[ipc.tk.at + 1].t = "error"
        /\ \A i \in (ipc.tk.at + 1)..Len(ipc.out) :
              ipc.out[i].t \notin {"event", "done", "stopped"}
        /\ Len(ipc.out) - ipc.tk.at - 1 <= ipc.read.n - ipc.tk.reads
        /\ ~ipc.watching
        /\ ipc.pc \in {"idle", "crashed"}

\* the second tick of a stream failed after the first had written an event
C38_Witness ==
    /\ TickInLastStream /\ ipc.tk.failed
    /\ ipc.tk.tick = 2
    /\ \E i \in StreamEvents : ipc.out[i].tick = 1
    /\ ipc.out[Len(ipc.out)].t = "error"
    /\ ipc.pc = "idle"

\* the second read of a tick failed after the first had succeeded
C38_SecondItemWitness ==
    /\ TickInLastStream /\ ipc.tk.failed
    /\ ipc.w.items = WatchedTwice
    /\ ipc.out[Len(ipc.out)] = Error("DidError")
    /\ DOMAIN ipc.lastv # {}

\* the key of the events of an item
ItemKey(item) == <<NormalizeEcu(item.ecu).ecu, Format04X(item.did)>>

\* a stream starts with a watcher that has seen nothing: its first tick is
\* tick 1 and writes an event for every item, or fails
FreshWatcher ==
    /\ \A i \in StreamEvents : ipc.out[i].tick >= 1
    /\ (Connected /\ ipc.watching /\ StreamStart = Len(ipc.out)) =>
          (ipc.tick = 0 /\ ipc.lastv = <<>>)
    /\ (TickInLastStream /\ ipc.tk.at = StreamStart) =>
          /\ ipc.tk.tick = 1
          /\ ~ipc.tk.failed =>
                \A k \in 1..Len(ipc.w.items) :
                    \E i \in StreamEvents :
                        /\ ipc.out[i].tick = 1
                        /\ ipc.out[i].key = ItemKey(ipc.w.items[k])

\* C37: watcher state is per stream: every stream numbers its ticks from 1
\* and its first tick writes an event for every item, whatever an earlier
\* stream of the connection has seen; after a stream has ended the
\* connection is in command mode again.
C37_StatePerStream ==
    /\ Connected => FreshWatcher
    /\ (Connected /\ StreamStart > 0 /\ ~ipc.watching) => ipc.pc = "idle"

\* what holds of C37: the watcher of a stream starts fresh
C37_FreshWatcher == Connected => FreshWatcher

\* a second stream on the connection has run its first tick after a first
\* stream had written events
C37_SecondStreamWitness ==
    /\ TickInLastStream /\ ipc.tk.at = StreamStart /\ ~ipc.tk.failed
    /\ ipc.w.emit = "changed"
    /\ \E i \in 1..StreamStart : ipc.out[i].t = "event" /\ ipc.out[i].tick = 2
    /\ \E i \in StreamEvents : \E j \in 1..StreamStart :
          /\ ipc.out[j].t = "event"
          /\ ipc.out[j].key = ipc.out[i].key
          /\ ipc.out[j].value = ipc.out[i].value

\* C33: after the client has closed the connection during a watch stream
\* the server stops polling the ECU: a stream without max_ticks runs one
\* more tick at most.
C33_NoPollingAfterClose ==
    (Connected /\ ipc.closed /\ ipc.w.max_ticks.none) => ipc.polls <= 1

\* what holds of C33: a stream that waits between its ticks, or that writes
\* an event in every tick, ends with the tick after the disconnect
C33_WaitingOrWriting ==
    (Connected /\ ipc.closed /\ ipc.w.max_ticks.none
        /\ (ipc.w.tick_ms > 0 \/ ipc.w.emit = "always")) =>
        /\ ipc.polls <= 1
        /\ ipc.polls = 1 => ipc.pc \in {"wait", "ended", "crashed"}

\* the stream of a closed connection has ended
C33_EndedWitness ==
    /\ Connected /\ ipc.closed /\ ipc.w.max_ticks.none
    /\ ipc.pc = "ended" /\ ipc.polls = 1

\* the stream of a closed connection is streaming at the bound of the ticks
C33_StillPollingWitness ==
    /\ Connected /\ ipc.closed /\ ipc.w.max_ticks.none
    /\ ipc.pc = "stream" /\ ipc.tick = MaxTicks /\ ipc.polls = MaxTicks - 1

StopPending ==
    /\ Connected /\ ipc.watching
    /\ \E k \in 1..Len(ipc.inq) : ipc.inq[k].active /\ ipc.inq[k].line = WatchStop

StopAnswered ==
    /\ Connected
    /\ ipc.read.streaming /\ ipc.read.line = WatchStop
    /\ ipc.read.reply.t = "stopped"
    /\ ipc.pc = "idle"

\* the stream has ended with its done line or with an error line
StreamOver == Connected /\ ~ipc.watching /\ ipc.pc = "idle"

\* C32: a watch_stop sent while the stream is active is eventually read and
\* answered with {ok, stopped}, the server being in command mode again,
\* unless the stream has ended by itself before.
C32_StopAnswered == StopPending ~> (StopAnswered \/ StreamOver)

\* a watch_stop was answered
C32_AnsweredWitness == StopAnswered /\ ipc.tick >= 1

(***************************************************************************)
(* The adaptation value codec on its own: _encode_value of a text for a    *)
(* setting of some kind, then _decode_value of the bytes it emitted.       *)
(***************************************************************************)
\* the numbers written to the codec: around 0 and around the ends of the
\* ranges of u8, u16 and i16
CodecNumbers ==
    (0 - 2)..2 \cup 126..129 \cup 254..257 \cup {300, 4660} \cup 32766..32769
        \cup 65534..65537 \cup (0 - 32769)..(0 - 32766) \cup {0 - 129, 0 - 128, 0 - 256}

\* str(n) for an integer
IntText(n) == IF n < 0 THEN <<17>> \o Digits(0 - n) ELSE Digits(n)

\* an enum map whose keys go beyond a byte, which the loader admits:
\* "7" -> "eco", "300" -> "max"
WideEnum == { <<<<7>>, <<14, 12, 26>>>>, <<<<3, 0, 0>>, <<27, 10, 16>>>> }

\* the settings the codec is asked about
CodecSpecs ==
    { [kind |-> k, enum |-> {}] : k \in {"u8", "u16", "i16"} }
        \cup { [kind |-> "enum", enum |-> e] : e \in {ModeEnum, WideEnum} }

\* the texts written to the codec: numbers, labels in either case, and texts
\* that are neither
CodecTexts ==
    { IntText(n) : n \in CodecNumbers }
        \cup { <<26, 25>>, <<76, 75>>, <<76, 25>>, <<10, 22, 20, 26>>, <<60, 72, 70, 76>>,
               <<14, 12, 26>>, <<77, 60, 66>>, <<>>, <<17>>, <<1, 16>>, <<0, 7>> }

\* _encode_value of a text
DoEncodeValue ==
    /\ codec.pc \in {"idle", "encoded", "decoded"}
    /\ \E spec \in CodecSpecs, value \in CodecTexts :
          codec' = [pc |-> "encoded", spec |-> spec, value |-> value,
                    enc |-> EncodeValue(spec, value),
                    dec |-> [ok |-> FALSE, val |-> 0, err |-> "none"]]
    /\ UNCHANGED <<StoreVars, LinkVars, scan, ipc, dtc, dtcs, conc, calls>>

\* _decode_value of the bytes emitted
DoDecodeValue ==
    /\ codec.pc = "encoded"
    /\ codec.enc.ok
    /\ codec' = [codec EXCEPT !.pc = "decoded",
                              !.dec = DecodeValue(codec.spec, codec.enc.bytes)]
    /\ UNCHANGED <<StoreVars, LinkVars, scan, ipc, dtc, dtcs, conc, calls>>

CodecNext ==
    \/ DoEncodeValue
    \/ DoDecodeValue

CodecSpec == TpInit /\ [][CodecNext]_vars

\* the range of a kind and the bytes of its values
KindLow(kind) == IF kind = "i16" THEN 0 - 32768 ELSE 0

KindHigh(kind) == IF kind \in {"u8", "enum"} THEN 255 ELSE IF kind = "u16" THEN 65535 ELSE 32767

KindWidth(kind) == IF kind \in {"u8", "enum"} THEN 1 ELSE 2

\* the bytes read as an unsigned big-endian number
RECURSIVE BigEndian(_)
BigEndian(bs) == IF bs = <<>> THEN 0 ELSE 256 * BigEndian(SubSeq(bs, 1, Len(bs) - 1)) + bs[Len(bs)]

Encoded == codec.pc \in {"encoded", "decoded"}

C40_RejectedWitness ==
    /\ Encoded /\ ~codec.enc.ok
    /\ \/ codec.spec.kind = "u8" /\ codec.value = IntText(256)
       \/ codec.spec.kind = "u16" /\ codec.value = IntText(65536)

\* a label written in upper case emitted the byte of its key
C40_LabelWitness ==
    /\ Encoded /\ codec.enc.ok
    /\ codec.spec = [kind |-> "enum", enum |-> ModeEnum]
    /\ codec.value = <<60, 72, 70, 76>>
    /\ codec.enc.bytes = <<2>>

\* the label of key 300 emitted one byte, 300 mod 256
C40_WideKeyWitness ==
    /\ Encoded /\ codec.enc.ok
    /\ codec.spec = [kind |-> "enum", enum |-> WideEnum]
    /\ codec.value = <<77, 60, 66>>
    /\ codec.enc.bytes = <<44>>


(***************************************************************************)
(* What a revert leaves alone.                                             *)
(***************************************************************************)
\* the step taken is a revert, of the engine or of the service facade
RevertStep == last'.op \in Reverts

\* a revert left the backup root as it was and created no backup
RevertLeavesStore ==
    /\ files' = files
    /\ indexJsonl' = indexJsonl
    /\ indexTxt' = indexTxt
    /\ issued' = issued
    /\ \A i \in 1..Len(last'.steps) : last'.steps[i].t \in {"write", "read"}

\* a revert changed no DID but the one its record names
RevertWritesRecordDid ==
    \A d \in Dids :
        mem'[d] # mem[d] =>
            /\ NamedFound'
            /\ NamedRecord'.did = Format04X(d)
            /\ last'.steps[1].t = "write" /\ last'.steps[1].did = d

\* a revert of the backup the revert before it named, both accepted by an ECU
\* that stores what is written, ends where the first ended
RevertAgain ==
    (/\ last.op = last'.op /\ last.value = last'.value
     /\ last.res = "ok" /\ last'.res = "ok"
     /\ EcuStoredAll /\ EcuStoredAll') =>
        /\ mem' = mem
        /\ last'.steps = last.steps
        /\ last'.bid = last.bid

\* C39: a revert changes only the ECU: it creates no backup record, leaves
\* every record file and both indexes as they were, takes no mode and checks
\* no unsafe password, and the DID it writes is the one its record names; the
\* same backup reverted again gives the same result.
C39_RevertChangesOnlyEcu ==
    [][ RevertStep => (RevertLeavesStore /\ RevertWritesRecordDid /\ RevertAgain) ]_vars

\* revert_coding of the service wrote the old bytes of a write backup, no
\* mode and no password given, the root holding records of both stores
C39_Witness ==
    /\ last.op = "coding_revert" /\ last.via = "service"
    /\ last.res = "ok" /\ ~last.pwok /\ last.mode = ""
    /\ Len(last.steps) = 2 /\ last.steps[1].t = "write"
    /\ NamedFound /\ last.steps[1].data = ParseHex(NamedRecord.old_hex).bytes
    /\ indexJsonl # <<>> /\ indexTxt # <<>>

\* a revert of the adaptations engine wrote to a DID that had been written
\* since the write that made the backup
C39_AgainWitness ==
    /\ last.op = "adapt_revert" /\ last.via = "engine" /\ last.res = "ok"
    /\ last.tgt.known /\ ~last.tgt.isfresh /\ EcuStoredAll
    /\ mem[last.tgt.did] = ParseHex(NamedRecord.old_hex).bytes

\* revert_adaptation of the service stopped before the manager was built
C39_ServiceAdaptWitness ==
    /\ last.op = "adapt_revert" /\ last.via = "service"
    /\ last.res = AdaptationsManagerError /\ last.steps = <<>> /\ files # <<>>

(***************************************************************************)
(* The probes of a scan and its end.                                       *)
(***************************************************************************)
\* a scan is under way
Scanning == scan.pc \in {"functional", "physical"}

\* the functional scan is over
FunctionalOver == scan.pc \in {"physical", "done"} /\ scan.cfg.addressing # "physical"

\* the probes of the scan so far: the functional scan ends having sent
\* retries + 1 probes; each candidate got at most retries + 1 requests, none
\* after its first response and retries + 1 when it gave none; no candidate
\* is probed twice; a scan that started is never stopped by an error
ScanProbes ==
    /\ scan.pc = "functional" => scan.fsent \in 1..(scan.cfg.retries + 1)
    /\ FunctionalOver => scan.fsent = scan.cfg.retries + 1
    /\ scan.pc = "error" => ValidateConfig(scan.cfg) # "none" /\ scan.probes = <<>>
    /\ (Scanning \/ scan.pc = "done") =>
          /\ \A i \in 1..Len(scan.probes) :
                LET a == scan.probes[i].attempts
                    answered == { k \in 1..Len(a) : a[k].k = "resp" }
                IN  /\ scan.probes[i].sent \in 1..(scan.cfg.retries + 1)
                    /\ \A k \in answered : scan.probes[i].sent <= k
                    /\ answered = {} => scan.probes[i].sent = scan.cfg.retries + 1
          /\ \A i, j \in 1..Len(scan.probes) :
                i # j => scan.probes[i].ecu # scan.probes[j].ecu

\* what is left of a scan: the frames the deadlines still admit, the rounds
\* of the functional scan, the candidates of the physical scan; 0 at its end
ScanLeft ==
    IF scan.pc = "functional"
        THEN 100 + (MaxFrames - Len(scan.rx)) + 10 * (scan.cfg.retries + 1 - scan.fsent)
    ELSE IF scan.pc = "physical" THEN 1 + Len(scan.cands)
    ELSE 0

\* a step of the scan can be taken: the next round or the end of the
\* functional scan, the next candidate or the end of the physical scan
ScanCanStep ==
    \/ scan.pc = "functional" /\ scan.fsent < scan.cfg.retries + 1
    \/ scan.pc = "functional" /\ scan.fsent >= scan.cfg.retries + 1
    \/ scan.pc = "physical" /\ scan.cands # <<>>
           /\ ProbeAttempts(Head(scan.cands), scan.cfg.retries) # {}
    \/ scan.pc = "physical" /\ scan.cands = <<>>

C36_NoRetryWitness ==
    /\ scan.pc = "done" /\ scan.cfg.retries = 0
    /\ \E i \in 1..Len(scan.probes) :
          scan.probes[i].sent = 1 /\ scan.probes[i].attempts = <<IsoTpFailed>>

(***************************************************************************)
(* The requests of one UDS client in turn, to an ECU (emulator/ecu_sim.py) *)
(* that answers every request it receives, at once or late.  Each request  *)
(* builds its own IsoTpTransport on the CAN transport the client was given;*)
(* what arrives on that transport waits in its receive queue until a       *)
(* request reads it.                                                       *)
(***************************************************************************)
\* the client makes at most this many requests
MaxRequests == 3

Vin == <<87, 86, 87, 90, 90, 90, 48, 48, 48, 48, 48, 48, 48, 48, 48, 48, 49>>

PartNumber == <<65, 85, 84, 79, 83, 86, 67, 45, 69, 67, 85, 48, 48>>

\* EcuSimulator.handle_uds for the services the client asks here:
\* [resp, rpm_reads]
HandleUds(payload, rpm_reads) ==
    LET sid == payload[1]
        did == BitOr(ShiftLeft(payload[2], 8), payload[3])
        rpm == 850 + rpm_reads * 50
        same(resp) == [resp |-> resp, rpm_reads |-> rpm_reads]
    IN  IF sid = 16 THEN same(<<80, IF Len(payload) > 1 THEN payload[2] ELSE 1>>)
        ELSE IF sid = 34
            THEN IF Len(payload) < 3 THEN same(<<127, sid, 19>>)
                 ELSE IF did = 61840 THEN same(<<98, payload[2], payload[3]>> \o Vin)
                 ELSE IF did = 61831 THEN same(<<98, payload[2], payload[3]>> \o PartNumber)
                 ELSE IF did = 4660
                     THEN [resp |-> <<98, payload[2], payload[3], rpm \div 256, rpm % 256>>,
                           rpm_reads |-> rpm_reads + 1]
                 ELSE same(<<127, sid, 49>>)
        ELSE IF sid = 20 THEN same(<<84>>)
        ELSE same(<<127, sid, 17>>)

\* DiagnosticSessionControl 10 01, ReadDataByIdentifier 22 12 34
LateRequests == { [sid |-> 16, data |-> <<1>>], [sid |-> 34, data |-> <<18, 52>>] }

\* UdsClient.request: the next request of the client
DoClientRequest ==
    /\ calls.n < MaxRequests
    /\ UdsSend({0}, {"11bit"}, LateRequests)
    /\ calls' = [calls EXCEPT !.n = @ + 1]
    /\ UNCHANGED <<StoreVars, scan, ipc, dtc, dtcs, codec, conc>>

\* the request returned or raised; its IsoTpTransport is dropped, the CAN
\* transport and its receive queue stay
DoClientReturn ==
    /\ uds.pc \in {"done", "error"} /\ calls.n < MaxRequests
    /\ calls' = [calls EXCEPT !.log = Append(@, [sid |-> uds.sid, pc |-> uds.pc,
                                                  err |-> uds.err, result |-> uds.result])]
    /\ uds' = [uds EXCEPT !.pc = "idle", !.result = None, !.err = "none",
                          !.pendings = 0, !.deadline = 0]
    /\ tp' = [tp EXCEPT !["A"] = TpInstance(TesterTxId, TesterRxId, 8, 10, TpTimeout)]
    /\ UNCHANGED <<wire, now>>
    /\ UNCHANGED <<StoreVars, scan, ipc, dtc, dtcs, codec, conc>>

\* ecu_sim.main: the ECU takes a request of one frame and sends its answer,
\* of one frame
EcuAnswer ==
    /\ wire["B"] # <<>>
    /\ LET f   == Head(wire["B"])
           req == DecodeIsotpSingleFrame(f.data)
           h   == HandleUds(req.payload, calls.rpm_reads)
       IN  IF req.none \/ f.id # TesterTxId
               THEN /\ wire' = [wire EXCEPT !["B"] = Tail(@)]
                    /\ calls' = calls
           ELSE /\ Len(h.resp) <= 7
                /\ wire' = [wire EXCEPT !["B"] = Tail(@),
                                        !["A"] = Append(@, Frame(TesterRxId,
                                                     SendCan(SingleFrame(h.resp)).data))]
                /\ calls' = [calls EXCEPT !.answers = Append(@, h.resp),
                                          !.rpm_reads = h.rpm_reads]
    /\ UNCHANGED <<tp, now, uds>>
    /\ UNCHANGED <<StoreVars, scan, ipc, dtc, dtcs, codec, conc>>

LateNext ==
    \/ DoClientRequest
    \/ DoClientReturn
    \/ EcuAnswer
    \/ UdsStep
    \/ DoRecvFirst("A")
    \/ DoTimeout("A")
    \/ Tick

LateSpec == TpInit /\ [][LateNext]_vars

\* the request in progress returned a payload
Returned == uds.pc = "done" /\ uds.by = "client" /\ calls.n >= 1

\* the ECU's answer to the request in progress, None while it has made none
AnswerOfRequest ==
    IF calls.n \in 1..Len(calls.answers) THEN calls.answers[calls.n] ELSE None

\* a request before the one in progress ended with a timeout
TimedOutBefore ==
    \E k \in 1..Len(calls.log) : calls.log[k].err = "timeout waiting for response"

\* C31: the payload a UDS request returns is the ECU's response to that
\* request, also when an earlier request to the same ECU timed out and its
\* response arrived late.
C31_ResponseOfRequest == Returned => uds.result = AnswerOfRequest

\* the part of C31 that holds: while no request has timed out, a request
\* returns the ECU's response to it
C31_InOrderUntilTimeout == (Returned /\ ~TimedOutBefore) => uds.result = AnswerOfRequest

\* the third request returned the ECU's answer to it, no request having
\* timed out
C31_InOrderWitness ==
    /\ Returned /\ calls.n = 3 /\ ~TimedOutBefore
    /\ calls.log[1].pc = "done" /\ calls.log[2].pc = "done"
    /\ uds.sid = 34 /\ uds.result = <<98, 18, 52, 3, 182>>

\* DiagnosticSessionControl timed out, its 50 01 arrived afterwards, and the
\* ReadDataByIdentifier that followed returned 50 01
C31_LateWitness ==
    /\ Returned /\ calls.n = 2 /\ uds.sid = 34
    /\ calls.log[1].sid = 16 /\ calls.log[1].err = "timeout waiting for response"
    /\ uds.result = <<80, 1>>

\* a read of DID 1234 timed out and the read of DID 1234 that followed
\* returned the value the ECU had made for the first
C31_StaleValueWitness ==
    /\ Returned /\ calls.n = 2 /\ uds.sid = 34
    /\ calls.log[1].sid = 34 /\ calls.log[1].err = "timeout waiting for response"
    /\ uds.result = <<98, 18, 52, 3, 82>>
    /\ Len(calls.answers) = 2 /\ calls.answers[2] = <<98, 18, 52, 3, 132>>

(***************************************************************************)
(* Two stores on one backup root, each creating one backup, a file         *)
(* operation at a time.  Both are stores of backups.py (read the last line *)
(* of index.jsonl, write the record file, append to index.jsonl) or both   *)
(* stores of core/safety/backups.py (read index.txt, write index.txt,      *)
(* write the record file).                                                 *)
(***************************************************************************)
Creators == {1, 2}

Other(i) == 3 - i

\* the root before the two creations: empty, or holding the record of one
\* earlier creation of the same store
RootBefore(store) ==
    { Dir(<<>>, <<>>, <<>>),
      IF store = "backups" THEN CreateWriteBackup(Dir(<<>>, <<>>, <<>>), Ecu09, AdaptDid, None,
                                                  <<0>>, <<9>>).dir
      ELSE SafetyCreateBackup(Dir(<<>>, <<>>, <<>>), Ecu09, AdaptDid, None, <<0>>, <<9>>).dir }

\* the record a creator builds from the id it has taken from the root
RecordOf(store, dir, i) ==
    IF store = "backups" THEN CreateWriteBackup(dir, Ecu09, CodingDid, None, <<i>>, <<i, i>>).rec
    ELSE SafetyCreateBackup(dir, Ecu09, CodingDid, None, <<i>>, <<i, i>>).rec

\* two create_backup calls begin
ConcStart ==
    /\ conc.pc = "idle"
    /\ \E store \in {"backups", "safety"} :
          \E dir \in RootBefore(store) :
              conc' = [pc |-> "run", store |-> store, dir |-> dir, before |-> dir,
                       p |-> [i \in Creators |-> [pc |-> "start", rec |-> None, nxt |-> 0,
                                                   saw |-> "none"]]]
    /\ UNCHANGED <<StoreVars, LinkVars, scan, ipc, dtc, dtcs, codec, calls>>

\* _next_id of either store: the last id is read from the index
ReadLastId(i) ==
    /\ conc.pc = "run" /\ conc.p[i].pc = "start"
    /\ conc' = [conc EXCEPT
                   !.p[i] = [pc  |-> IF conc.store = "backups" THEN "named" ELSE "counted",
                             rec |-> RecordOf(conc.store, conc.dir, i),
                             nxt |-> IF conc.store = "backups" THEN NextNumber(conc.dir)
                                     ELSE SafetyNextNumber(conc.dir),
                             saw |-> conc.p[Other(i)].pc]]
    /\ UNCHANGED <<StoreVars, LinkVars, scan, ipc, dtc, dtcs, codec, calls>>

\* core/safety/backups.py _next_id: the counter is written back
WriteCounter(i) ==
    /\ conc.pc = "run" /\ conc.p[i].pc = "counted"
    /\ conc' = [conc EXCEPT !.p[i].pc = "named",
                            !.dir = Dir(conc.dir.files, conc.dir.jsonl, Digits(conc.p[i].nxt))]
    /\ UNCHANGED <<StoreVars, LinkVars, scan, ipc, dtc, dtcs, codec, calls>>

\* create_backup of either store: the record file is written
WriteRecord(i) ==
    /\ conc.pc = "run" /\ conc.p[i].pc = "named"
    /\ conc' = [conc EXCEPT
                   !.p[i].pc = IF conc.store = "backups" THEN "written" ELSE "done",
                   !.dir = Dir(PutFile(conc.dir.files, conc.p[i].rec.backup_id, conc.p[i].rec),
                               conc.dir.jsonl, conc.dir.txt)]
    /\ UNCHANGED <<StoreVars, LinkVars, scan, ipc, dtc, dtcs, codec, calls>>

\* backups.py create_backup: the record is appended to index.jsonl
AppendIndex(i) ==
    /\ conc.pc = "run" /\ conc.p[i].pc = "written"
    /\ conc' = [conc EXCEPT !.p[i].pc = "done",
                            !.dir = Dir(conc.dir.files, Append(conc.dir.jsonl, conc.p[i].rec),
                                        conc.dir.txt)]
    /\ UNCHANGED <<StoreVars, LinkVars, scan, ipc, dtc, dtcs, codec, calls>>

ConcNext ==
    \/ ConcStart
    \/ \E i \in Creators : ReadLastId(i)
    \/ \E i \in Creators : WriteCounter(i)
    \/ \E i \in Creators : WriteRecord(i)
    \/ \E i \in Creators : AppendIndex(i)

ConcSpec == TpInit /\ [][ConcNext]_vars

\* both creations have returned
BothCreated == conc.pc = "run" /\ \A i \in Creators : conc.p[i].pc = "done"

\* the two ids differ, each record file holds the record its creator wrote,
\* and the record that was there before is untouched
TwoIntactRecords ==
    /\ conc.p[1].rec.backup_id # conc.p[2].rec.backup_id
    /\ \A i \in Creators :
          /\ conc.p[i].rec.backup_id \in DOMAIN conc.dir.files
          /\ conc.dir.files[conc.p[i].rec.backup_id] = conc.p[i].rec
    /\ \A id \in DOMAIN conc.before.files : conc.dir.files[id] = conc.before.files[id]

\* one creation returned before the other read the index
OneAfterTheOther == \E i \in Creators : conc.p[i].saw = "done"

\* C34: two backup creations on one backup root whose steps interleave
\* return two distinct backup ids and leave two intact record files.
C34_DistinctIds == BothCreated => TwoIntactRecords

\* the part of C34 that holds: two creations of which one returned before
\* the other began
C34_OneAfterTheOther == (BothCreated /\ OneAfterTheOther) => TwoIntactRecords

\* the second creation began after the first had returned, on a root that
\* held a record: ids 000002 and 000003
C34_SequentialWitness ==
    /\ BothCreated /\ conc.p[2].saw = "done" /\ conc.before.files # <<>>
    /\ conc.p[1].rec.backup_id = Format06d(2) /\ conc.p[2].rec.backup_id = Format06d(3)

\* both stores of backups.py read index.jsonl before either appended to it:
\* both return 000001, and the file holds the record of one of them
C34_SameIdWitness ==
    /\ BothCreated /\ conc.store = "backups"
    /\ conc.p[1].rec.backup_id = Format06d(1) /\ conc.p[2].rec.backup_id = Format06d(1)
    /\ conc.dir.files[Format06d(1)] # conc.p[1].rec
    /\ Len(conc.dir.jsonl) = 2

\* both stores of core/safety/backups.py read index.txt before either wrote
\* it: both return 000002, and index.txt says 2 after three creations
C34_SafetySameIdWitness ==
    /\ BothCreated /\ conc.store = "safety" /\ conc.before.files # <<>>
    /\ conc.p[1].rec.backup_id = Format06d(2) /\ conc.p[2].rec.backup_id = Format06d(2)
    /\ conc.dir.txt = <<2>>

(***************************************************************************)
(* A sender and a receiver of this code on a lossless in-order channel:    *)
(* endpoint B is constructed with a block size, endpoint A sends a         *)
(* multi-frame payload and endpoint B receives it.  No time passes, so an  *)
(* endpoint left waiting is one whose queue is empty while its peer has    *)
(* nothing to send.                                                        *)
(***************************************************************************)
\* block sizes of the receiver: none, every frame, small blocks, the default
\* and the largest the flow-control byte carries
XferBlockSizes == {0, 1, 2, 3, 8, 255}

\* payload lengths sent to a receiver of block size bs: from the shortest
\* multi-frame payload up, ending on and next to a block boundary; the long
\* ones go to the block sizes whose boundary they reach
XferLengths(bs) ==
    {8, 13, 14, 20, 21, 27, 28, 62, 63}
        \cup (IF bs = 0 THEN {300} ELSE {})
        \cup (IF bs = 255 THEN {1791, 1798} ELSE {})
        \cup (IF bs \in {8, 255} THEN {4095} ELSE {})

\* IsoTpTransport(can, tx_id, rx_id, block_size=bs) for endpoint B
DoConstructBlock ==
    /\ tp["A"].pc = "idle" /\ tp["B"].pc = "idle"
    /\ \E bs \in XferBlockSizes \ {tp["B"].block_size} :
          tp' = [tp EXCEPT !["B"].block_size = bs]
    /\ UNCHANGED <<wire, now, uds>>
    /\ UNCHANGED EngineVars

XferNext ==
    \/ DoConstructBlock
    \/ DoRequest("A", { Pattern(n) : n \in XferLengths(tp["B"].block_size) })
    \/ DoRecvResponse("B")
    \/ DoAwaitFlowControl("A")
    \/ DoSendConsecutiveFrame("A")
    \/ DoRecvFirst("B")
    \/ DoRecvConsecutive("B")

XferSpec == TpInit /\ [][XferNext]_vars

\* endpoint A sends a multi-frame payload
Transferring == tp["A"].op = "request" /\ Len(tp["A"].payload) \in 8..4095

\* the transfer is over: B returned the payload, A sent all of it, and no
\* frame is left in either queue
Transferred ==
    /\ tp["B"].pc = "done" /\ tp["B"].result = tp["A"].payload
    /\ tp["A"].pc = "recv_first" /\ tp["A"].offset = Len(tp["A"].payload) - 6
    /\ wire["A"] = <<>> /\ wire["B"] = <<>>

\* one of the two endpoints can take its next step
XferCanStep ==
    \/ tp["A"].pc = "send_cf"
    \/ tp["A"].pc = "await_fc" /\ wire["A"] # <<>>
    \/ tp["B"].pc = "idle"
    \/ tp["B"].pc \in {"recv_first", "recv_cf"} /\ wire["B"] # <<>>

\* the flow-control frames endpoint B sent
SentFlowControl == SelectSeq(Logged("B", "tx"), LAMBDA e : ShiftRight(e.data[1], 4) = 3)

\* a flow-control frame is in flight only while the sender waits for it, one
\* at a time, and it carries the receiver's block size
FlowControlAwaited ==
    /\ Len(wire["A"]) <= 1
    /\ wire["A"] # <<>> =>
          /\ tp["A"].pc = "await_fc"
          /\ Head(wire["A"]) = Frame(TesterRxId, <<48, tp["B"].block_size, 10, 0, 0, 0, 0, 0>>)

\* the frames of a payload of n bytes: the first frame and the consecutive ones
XferFrames(n) == 1 + n \div 7

\* frames sent and received so far by both endpoints, and B's call
XferDone ==
    Len(tp["A"].log) + Len(tp["B"].log) + (IF tp["B"].pc = "idle" THEN 0 ELSE 1)

\* C35: a sender and a receiver of this code on a lossless in-order channel
\* complete every multi-frame transfer: neither endpoint fails on a frame it
\* did not expect, a flow-control frame is in flight exactly while the sender
\* waits for one, until the payload is delivered one of the endpoints can
\* step, and every step adds to a bounded count of frames handled, so the
\* transfer ends with the payload returned by the receiver.
C35_TransferCompletes ==
    /\ [](Transferring =>
            /\ tp["A"].pc # "error" /\ tp["B"].pc # "error"
            /\ FlowControlAwaited
            /\ Transferred \/ XferCanStep
            /\ XferDone <= 4 * XferFrames(Len(tp["A"].payload)) + 1)
    /\ [][Transferring => XferDone' > XferDone]_vars

\* 1798 bytes went to a receiver of block size 255: 256 consecutive frames,
\* and a second flow control after the 255th
C35_Witness ==
    /\ Transferred /\ tp["B"].block_size = 255
    /\ Len(tp["B"].result) = 1798
    /\ Len(SentConsecutive("A")) = 256
    /\ Len(SentFlowControl) = 2

\* 1791 bytes end on the block boundary: 255 consecutive frames and no second
\* flow control
C35_BoundaryWitness ==
    /\ Transferred /\ tp["B"].block_size = 255
    /\ Len(tp["B"].result) = 1791
    /\ Len(SentFlowControl) = 1

\* block size 0: one flow control for the whole payload
C35_UnblockedWitness ==
    /\ Transferred /\ tp["B"].block_size = 0
    /\ Len(tp["B"].result) = 63
    /\ Len(SentFlowControl) = 1

\* block size 1: a flow control before every consecutive frame
C35_EveryFrameWitness ==
    /\ Transferred /\ tp["B"].block_size = 1
    /\ Len(tp["B"].result) = 63
    /\ Len(SentFlowControl) = 9

====
